---- MODULE Spec2Model ----
(***************************************************************************)
(* State-machine model of the grist workspace:                             *)
(*   - silica::Gui        (node registry, layout tree, pointer dispatch)   *)
(*   - gristmill QuadRenderer (quad / glyph batching)                      *)
(*   - grist::Obj / WeakObj   (fail-fast shared mutable cell)              *)
(*   - silica::view controls, GuiRenderer, gristmill InputSystem          *)
(* Each subsystem has its own specifications (Spec, SpecQuad, SpecObj, ..);*)
(* the variables of the other subsystems stay at their initial values.     *)
(***************************************************************************)
EXTENDS Integers, Sequences, FiniteSets, TLC

VARIABLES
    \* ---- silica::Gui ----
    layoutNodes,   \* keys of TaffyTree.nodes (live layout entries, root included)
    children,      \* TaffyTree.children : node -> Seq(node)
    parents,       \* TaffyTree.parents  : node -> node or NoParent
    box,           \* computed Layout per node: [x, y, w, h] (location, size)
    nodes,         \* Gui.nodes   : node -> Absent | NoVisual | Visual record
    widgets,       \* Gui.widgets : node -> Absent | widget kind
    highlight,     \* GuiState.highlight : NoNode or a NodeId
    pointer_down,  \* GuiState.pointer_down
    nextId,        \* next NodeId the slot map hands out (ids are never reused)
    status,        \* "ok", or how the process died: "panic" | "overflow"
    last,          \* the last top-level Gui call: [op, a, b, n]
    delivered,     \* handle_pointer deliveries of the last call, in order
    destroyed      \* NodeIds that destroy_node was called on and returned

guiVars == <<layoutNodes, children, parents, box, nodes, widgets, highlight,
             pointer_down, nextId, status, last, delivered, destroyed>>

VARIABLES
    \* ---- gristmill::two::QuadRenderer ----
    pixel_perfect,    \* QuadRenderer.pixel_perfect
    instances,        \* QuadRenderer.instances : Seq of Quad [rect, uv]
    instance_ranges,  \* QuadRenderer.instance_ranges : Seq of InstanceRange
    screen_size,      \* QuadRenderer.screen_size, <<w, h>> in quarter pixels
    scroll_offset,    \* QuadRenderer.scroll_offset, <<x, y>> in quarter pixels
    scale,            \* QuadRenderer.scale, in halves (2 is 1.0)
    glyph_layer,      \* QuadRenderer.glyph_layer : [layer, combine]
    glyph_instances,  \* QuadRenderer.glyph_instances : per layer, the glyphs
    glyph_texture,    \* glyph slots of the atlas texture bound for text
    brush,            \* the glyph_brush: [queue, last_draw, cache, capacity]
    frame             \* calls made on the renderer: [calls, frames, resizes,
                      \*  draws, action, status, n]; calls lists this frame's
                      \*  queue calls, action is the BrushAction of the flush

quadVars == <<pixel_perfect, instances, instance_ranges, screen_size,
              scroll_offset, scale, glyph_layer, glyph_instances,
              glyph_texture, brush, frame>>

VARIABLES
    \* ---- grist::Obj / grist::WeakObj on one value ----
    objs,       \* the Obj handles that exist (ids)
    weaks,      \* the WeakObj handles that exist (ids)
    arc,        \* the Arc allocation: [strong, weak, value]
    inner,      \* Value.inner, the RwLock: [readers, writer]
    last_used,  \* Value.last_used
    guards,     \* the guards the caller holds: Seq of [handle, kind, loc]
    ocall       \* the last call: [op, outcome, reported, status, n]

objVars == <<objs, weaks, arc, inner, last_used, guards, ocall>>

VARIABLES
    \* ---- the GuiRenderer handed to Gui::render_node ----
    painted     \* calls Gui::render made on it, in order: Seq of [node, cmd, x, y]

rendererVars == <<painted>>

VARIABLES
    \* ---- the controls of the nodes (silica::view::Button / Checkbox) ----
    model,      \* node -> the control's model: [kind, enabled, state, toggle]
    emitted     \* events the controls emitted in the last call, in order

controlVars == <<model, emitted>>

VARIABLES
    \* ---- gristmill::input::InputSystem ----
    input       \* [bindings : action name -> bound action or Unbound,
                \*  got : result of the last get]

inputVars == <<input>>

vars == <<guiVars, quadVars, objVars, rendererVars, controlVars, inputVars>>

\* a call on one object leaves the other objects alone
GuiFrame == UNCHANGED <<quadVars, objVars, rendererVars, inputVars>>
QuadFrame ==
    UNCHANGED <<guiVars, objVars, rendererVars, controlVars, inputVars>>
ObjFrame ==
    UNCHANGED <<guiVars, quadVars, rendererVars, controlVars, inputVars>>
\* a call that delivers nothing leaves the controls alone
ControlFrame == UNCHANGED controlVars

----------------------------------------------------------------------------
(* Bounds *)

\* number of NodeIds that create_node / create_widget may hand out
MaxNodes == 2
\* longest child list a node may have in the model
MaxChildren == 2
\* number of top-level Gui calls in one run
MaxCalls == 6

\* calls made on the Gui in the pointer specification
MaxPointerCalls == 8
\* calls made on the Gui in the painting specification
MaxPaintCalls == 6
\* calls of one run of the tree specification
MaxTreeCalls == 6
\* calls of one run of the specification of the lookups that find nothing
MaxMissingCalls == 6
\* calls made on the Gui in the hit-test specification
MaxHitCalls == 6
\* calls made on the renderer in the batching specification
MaxQuadCalls == 6
\* calls made on the renderer in the culling specification
MaxCullCalls == 3

\* Obj handles, and WeakObj handles, that exist at one time
MaxHandles == 2
\* guards held at one time
MaxGuards == 2
\* calls made on the handles of the value
MaxObjCalls == 6

----------------------------------------------------------------------------
(* silica::Gui -- values *)

Root == 0
NodeIds == 0..MaxNodes
NoNode == -1
NoParent == -1
Absent == "Absent"

\* Option<Visual>; Visual { background, border, foreground } says which paint
\* layers exist (some = FALSE is Option::None)
NoVisual == [some |-> FALSE, background |-> FALSE, border |-> FALSE,
             foreground |-> FALSE]
VisualDefault == [some |-> TRUE, background |-> FALSE, border |-> FALSE,
                  foreground |-> TRUE]
VisualButton == [some |-> TRUE, background |-> TRUE, border |-> TRUE,
                 foreground |-> TRUE]
\* no entry in Gui.nodes for that NodeId
NodeAbsent == [entry |-> FALSE, visual |-> NoVisual]
\* struct Node { visual }
Node(v) == [entry |-> TRUE, visual |-> v]
\* Option<Visual> values handed to create_node / set_visual
VisualArgs == {NoVisual, VisualButton}

\* kinds of widget created: Button, which shares
\* BaseButton::set_pointer_state + set_visual with Checkbox; a Label would
\* keep the default (empty) handle_pointer
WidgetKinds == {"Button"}

PointerState == {"None", "Over", "Press"}

\* Layout::new(): zero location and size, the layout of a fresh leaf
BoxZero == [x |-> 0, y |-> 0, w |-> 0, h |-> 0]
BoxA == [x |-> 0, y |-> 0, w |-> 100, h |-> 100]
BoxB == [x |-> 50, y |-> 50, w |-> 100, h |-> 100]
\* The style a node is created with decides its computed box (absolute
\* position, fixed size): nodes with an odd id are styled as BoxA, nodes
\* with an even id as BoxB
StyleBox(n) == IF n % 2 = 1 THEN BoxA ELSE BoxB
\* The style also decides the border: nodes with an odd id have a border of
\* width 1 on every edge, the others (the root too, Style::DEFAULT) none
StyleBorder(n) == IF n % 2 = 1 THEN 1 ELSE 0
\* the size handed to Gui::layout
ScreenBox == [x |-> 0, y |-> 0, w |-> 800, h |-> 600]
\* pointer positions handed to handle_pointer_motion
Points == {<<75, 75>>, <<10, 10>>, <<700, 700>>}

\* pointer positions on and around the edges of BoxA and BoxB
ProbePoints ==
    {<<0, 0>>, <<75, 75>>, <<100, 100>>, <<120, 120>>, <<150, 150>>}

\* results of the hit test besides a NodeId / NoNode
Panic == -2
Overflow == -3

----------------------------------------------------------------------------
(* silica::Gui -- pure helpers *)

Live(n) == n \in layoutNodes

\* variant: any Visual makes the node hit-testable
can_highlight_any_visual(n) ==
    /\ nodes[n].entry
    /\ nodes[n].visual.some

\* Node::can_highlight: the node's Visual exists and has a background
can_highlight(n) ==
    /\ nodes[n].entry
    /\ nodes[n].visual.some
    /\ nodes[n].visual.background

\* taffy child links followed from the root through live nodes
RECURSIVE ReachFrom(_, _)
ReachFrom(frontier, seen) ==
    IF frontier = {} THEN seen
    ELSE LET nxt == {c \in NodeIds : \E p \in frontier :
                        /\ Live(p)
                        /\ \E i \in 1..Len(children[p]) : children[p][i] = c}
         IN ReachFrom(nxt \ (seen \cup frontier), seen \cup frontier)

\* every NodeId met when walking child links from the root (dangling ids included)
Linked == ReachFrom({Root}, {})
\* nodes present in the tree: live and linked from the root
Reachable == {n \in Linked : Live(n)}
\* a walk along child links from the root meets a removed NodeId
HasDangling == \E n \in Linked : ~Live(n)
\* a walk along child links from the root can come back to a node
RECURSIVE CycleFrom(_, _)
CycleFrom(n, path) ==
    IF n \in path THEN TRUE
    ELSE IF ~Live(n) THEN FALSE
    ELSE \E i \in 1..Len(children[n]) : CycleFrom(children[n][i], path \cup {n})
HasCycle == CycleFrom(Root, {})

\* variant: the right and the bottom edge belong to the box
InsideClosed(b, lx, ly) == lx >= 0 /\ ly >= 0 /\ lx <= b.w /\ ly <= b.h

\* half-open containment test of hit_highlightable_node, in local coordinates
Inside(b, lx, ly) == lx >= 0 /\ ly >= 0 /\ lx < b.w /\ ly < b.h

\* Gui::hit_highlightable_node.  Result: a NodeId, NoNode (Option::None),
\* Panic (layout() of a removed NodeId indexes the slot map) or Overflow
\* (the recursion re-enters a node with the same point: it never returns).
RECURSIVE hit_highlightable_node(_, _, _, _)
RECURSIVE HitChildren(_, _, _, _, _)
RECURSIVE HitChildrenForward(_, _, _, _, _)
\* variant: the children are tried in insertion order (no .rev())
HitChildrenForward(node, i, lx, ly, path) ==
    IF i = 0 THEN NoNode
    ELSE LET k == Len(children[node]) - i + 1
             r == hit_highlightable_node(children[node][k], lx, ly, path)
         IN IF r # NoNode THEN r
            ELSE HitChildrenForward(node, i - 1, lx, ly, path)

\* the loop over children(node).into_iter().rev(): child i first, then i - 1
HitChildren(node, i, lx, ly, path) ==
    IF i = 0 THEN NoNode
    ELSE LET r == hit_highlightable_node(children[node][i], lx, ly, path)
         IN IF r # NoNode THEN r
            ELSE HitChildren(node, i - 1, lx, ly, path)

hit_highlightable_node(node, x, y, path) ==
    IF ~Live(node) THEN Panic
    ELSE LET lx == x - box[node].x
             ly == y - box[node].y
         IN IF Inside(box[node], lx, ly)
            THEN IF <<node, lx, ly>> \in path THEN Overflow
                 ELSE LET r == HitChildren(node, Len(children[node]), lx, ly,
                                           path \cup {<<node, lx, ly>>})
                      IN IF r # NoNode THEN r
                         ELSE IF can_highlight(node) THEN node
                         ELSE NoNode
            ELSE NoNode

\* the hit test as handle_pointer_motion starts it
HitTest(p) == hit_highlightable_node(Root, p[1], p[2], {})


----------------------------------------------------------------------------
(* taffy::TaffyTree as Gui uses it *)

\* Vec::retain(|f| *f != node)
RECURSIVE Retain(_, _)
Retain(seq, node) ==
    IF seq = <<>> THEN <<>>
    ELSE IF Head(seq) = node THEN Retain(Tail(seq), node)
    ELSE <<Head(seq)>> \o Retain(Tail(seq), node)

\* index of the first occurrence of child in seq, 0 when absent
Position(seq, child) ==
    IF \E i \in 1..Len(seq) : seq[i] = child
    THEN CHOOSE i \in 1..Len(seq) :
            /\ seq[i] = child
            /\ \A j \in 1..(i - 1) : seq[j] # child
    ELSE 0

\* Vec::remove(index)
RemoveAt(seq, i) == SubSeq(seq, 1, i - 1) \o SubSeq(seq, i + 1, Len(seq))

\* TaffyTree::remove(node) succeeds: node is a live key and so is every child
\* whose parent link it clears
TaffyRemoveOk(node) ==
    /\ Live(node)
    /\ \A i \in 1..Len(children[node]) : Live(children[node][i])

\* children after TaffyTree::remove(node): the node leaves the child list of
\* the parent recorded in parents[node] (and of no other node)
TaffyRemoveChildren(node) ==
    LET par == parents[node]
        c1 == IF par # NoParent /\ Live(par)
              THEN [children EXCEPT ![par] = Retain(children[par], node)]
              ELSE children
    IN [c1 EXCEPT ![node] = <<>>]

\* parents after TaffyTree::remove(node): the children of the node lose their
\* parent link
TaffyRemoveParents(node) ==
    [n \in NodeIds |->
        IF n = node THEN NoParent
        ELSE IF \E i \in 1..Len(children[node]) : children[node][i] = n
             THEN NoParent
             ELSE parents[n]]

\* TaffyTree::mark_dirty(node) walks the parent links upwards; par is the
\* parent map it walks.  TRUE when the walk comes back to a node it has seen.
RECURSIVE ParentWalkCycles(_, _, _)
ParentWalkCycles(par, n, seen) ==
    IF n = NoParent \/ ~Live(n) THEN FALSE
    ELSE IF n \in seen THEN TRUE
    ELSE ParentWalkCycles(par, par[n], seen \cup {n})

\* How mark_dirty(node) may end.  On a cyclic parent chain the taffy releases
\* that recurse unconditionally overflow the stack, the releases that stop at
\* an already dirty node return: both outcomes are kept.
MarkDirtyOutcomes(par, node) ==
    IF ParentWalkCycles(par, node, {}) THEN {"ok", "overflow"} ELSE {"ok"}

----------------------------------------------------------------------------
(* silica::view -- the models of the Button and Checkbox controls *)

PointerStates == {"None", "Over", "Press"}

\* Option<bool>: ButtonModel.toggle; CheckboxModel.value is always present
NoToggle == [some |-> FALSE, on |-> FALSE]
Toggle(on) == [some |-> TRUE, on |-> on]

\* ButtonModel::default with the toggle given
ButtonModel(toggle) ==
    [kind |-> "Button", enabled |-> TRUE, state |-> "None", toggle |-> toggle]
\* CheckboxModel::new(value)
CheckboxModel(value) ==
    [kind |-> "Checkbox", enabled |-> TRUE, state |-> "None",
     toggle |-> Toggle(value)]

\* the condition of the if in Control::handle_pointer
Activates(m, state) == m.enabled /\ m.state = "Over" /\ state = "Press"

\* variant: the control acts on every Press, whatever state it was in
handle_pointer_any_press(m, state) ==
    [m EXCEPT !.state = state,
              !.toggle = IF m.enabled /\ state = "Press" /\ @.some
                         THEN Toggle(~@.on) ELSE @]

\* <Button as Control>::handle_pointer / <Checkbox as Control>::handle_pointer:
\* the model after state was delivered
handle_pointer(m, state) ==
    [m EXCEPT !.state = state,
              !.toggle = IF Activates(m, state) /\ @.some
                         THEN Toggle(~@.on) ELSE @]

\* the event handle_pointer emits: pressed.emit(&()) of a Button,
\* changed.emit(&value) of a Checkbox, with the toggle / value after the flip
Emits(node, m, state) ==
    IF Activates(m, state)
    THEN <<[node |-> node, value |-> handle_pointer(m, state).toggle]>>
    ELSE <<>>

\* Button::new / Checkbox::new on every node; a node's control is in use
\* once create_widget put it into Gui.widgets
ControlInit ==
    /\ model = [n \in NodeIds |-> ButtonModel(NoToggle)]
    /\ emitted = <<>>

\* the controls an application may build: buttons without and with a
\* toggle, checkboxes unchecked and checked
ControlModels ==
    {ButtonModel(NoToggle), ButtonModel(Toggle(FALSE)),
     ButtonModel(Toggle(TRUE)), CheckboxModel(FALSE), CheckboxModel(TRUE)}

\* Button::new / Checkbox::new with any of these models on the nodes
ControlInitAny ==
    /\ model \in {f \in [NodeIds -> ControlModels] :
                     f[Root] = ButtonModel(NoToggle)}
    /\ emitted = <<>>

\* the models after the deliveries in ds, in order
RECURSIVE ModelsAfter(_, _)
ModelsAfter(ms, ds) ==
    IF ds = <<>> THEN ms
    ELSE ModelsAfter([ms EXCEPT ![Head(ds).node] =
                          handle_pointer(@, Head(ds).state)],
                     Tail(ds))

\* the events emitted during the deliveries in ds, in order
RECURSIVE EventsOf(_, _)
EventsOf(ms, ds) ==
    IF ds = <<>> THEN <<>>
    ELSE Emits(Head(ds).node, ms[Head(ds).node], Head(ds).state)
         \o EventsOf([ms EXCEPT ![Head(ds).node] =
                          handle_pointer(@, Head(ds).state)],
                     Tail(ds))

----------------------------------------------------------------------------
(* gristmill::input::InputSystem *)

\* the action names asked for; "jump" has no binding
ActionNames == {"primary", "exit", "jump"}
BoundNames == {"primary", "exit"}

\* InputState::None (the default) and InputState::Button
InputStateNone == [kind |-> "None", b |-> FALSE]
Button(b) == [kind |-> "Button", b |-> b]
\* InputState::as_button
as_button(state) == state.kind = "Button" /\ state.b
\* ActionState::default
ActionStateDefault == [changed |-> FALSE, state |-> InputStateNone]

\* the events of the window: a key or a mouse button goes down or up
InputEvents ==
    [type : {"Key"}, code : {"Escape", "Space"}, pressed : BOOLEAN]
    \cup [type : {"MouseButton"}, code : {"Left"}, pressed : BOOLEAN]

\* Binding::event for the KeyBinding of "exit" (Escape) and the
\* MouseButtonBinding of "primary" (Left): Some(Button) or None
BindingEvent(key, ev) ==
    IF \/ key = "exit" /\ ev.type = "Key" /\ ev.code = "Escape"
       \/ key = "primary" /\ ev.type = "MouseButton" /\ ev.code = "Left"
    THEN [some |-> TRUE, state |-> Button(ev.pressed)]
    ELSE [some |-> FALSE, state |-> InputStateNone]

\* InputSystem::new(bindings)
InputInit ==
    input = [actions |-> [k \in BoundNames |-> ActionStateDefault],
             primary |-> FALSE,
             got |-> [key |-> "", action |-> ActionStateDefault,
                      logged |-> FALSE]]

\* InputSystem::try_get
try_get(key) ==
    IF key \in DOMAIN input.actions
    THEN [some |-> TRUE, action |-> input.actions[key]]
    ELSE [some |-> FALSE, action |-> ActionStateDefault]

\* variant: an action that is not bound reads as pressed
get_result_pressed(key) ==
    IF try_get(key).some
    THEN [key |-> key, action |-> try_get(key).action, logged |-> FALSE]
    ELSE [key |-> key, action |-> [changed |-> TRUE, state |-> Button(TRUE)],
          logged |-> TRUE]

\* what InputSystem::get returns; logged: the eprintln of the else branch
get_result(key) ==
    IF try_get(key).some
    THEN [key |-> key, action |-> try_get(key).action, logged |-> FALSE]
    ELSE [key |-> key, action |-> ActionStateDefault, logged |-> TRUE]

----------------------------------------------------------------------------
(* silica::Gui -- operations *)

CanCall == status = "ok"

Call(op, a, b) == [op |-> op, a |-> a, b |-> b, n |-> last.n + 1]

GuiInit ==
    /\ painted = <<>>
    /\ layoutNodes = {Root}
    /\ children = [n \in NodeIds |-> <<>>]
    /\ parents = [n \in NodeIds |-> NoParent]
    /\ box = [n \in NodeIds |-> BoxZero]
    /\ nodes = [n \in NodeIds |-> NodeAbsent]
    /\ widgets = [n \in NodeIds |-> Absent]
    /\ highlight = NoNode
    /\ pointer_down = FALSE
    /\ nextId = 1
    /\ status = "ok"
    /\ last = [op |-> "new", a |-> 0, b |-> 0, n |-> 0]
    /\ delivered = <<>>
    /\ destroyed = {}

\* the call dies: nothing of the Gui is updated
Dies(how, op) ==
    /\ status' = how
    /\ last' = Call(op, 0, 0)
    /\ delivered' = <<>>
    /\ UNCHANGED <<layoutNodes, children, parents, box, nodes, widgets,
                   highlight, pointer_down, nextId, destroyed>>

\* Gui::create_node(style, visual)
create_node(visual) ==
    /\ CanCall
    /\ GuiFrame
    /\ ControlFrame
    /\ nextId <= MaxNodes
    /\ layoutNodes' = layoutNodes \cup {nextId}
    /\ nodes' = [nodes EXCEPT ![nextId] = Node(visual)]
    /\ nextId' = nextId + 1
    /\ last' = Call("create_node", 0, 0)
    /\ delivered' = <<>>
    /\ UNCHANGED <<children, parents, box, widgets, highlight, pointer_down,
                   status, destroyed>>

\* Gui::create_widget(style, visual, f): Label::with_text hands in
\* Some(Default::default()), Button::new / Checkbox::new Some(Visual::BUTTON)
create_widget(kind) ==
    /\ CanCall
    /\ GuiFrame
    /\ ControlFrame
    /\ nextId <= MaxNodes
    /\ layoutNodes' = layoutNodes \cup {nextId}
    /\ nodes' = [nodes EXCEPT ![nextId] =
                    Node(IF kind = "Button" THEN VisualButton ELSE VisualDefault)]
    /\ widgets' = [widgets EXCEPT ![nextId] = kind]
    /\ nextId' = nextId + 1
    /\ last' = Call("create_widget", 0, 0)
    /\ delivered' = <<>>
    /\ UNCHANGED <<children, parents, box, highlight, pointer_down, status, destroyed>>

\* variant: the highlight is never cleared
UnhighlightNever(node) == highlight

\* variant: the highlight is cleared whatever node leaves
UnhighlightAlways(node) == NoNode

\* variant: the highlight is also cleared when it is below the node
UnhighlightSubtree(node) ==
    IF highlight \in ReachFrom({node}, {}) THEN NoNode ELSE highlight

\* the highlight after destroy_node / remove_child of node
Unhighlight(node) == IF highlight = node THEN NoNode ELSE highlight

\* variant: the layout entry and the registry entry are left in place
destroy_node_no_teardown(node) ==
    /\ CanCall
    /\ GuiFrame
    /\ ControlFrame
    /\ IF TaffyRemoveOk(node)
       THEN /\ widgets' = [widgets EXCEPT ![node] = Absent]
            /\ highlight' = Unhighlight(node)
            /\ destroyed' = destroyed \cup {node}
            /\ last' = Call("destroy_node", node, 0)
            /\ delivered' = <<>>
            /\ UNCHANGED <<layoutNodes, children, parents, nodes, box,
                           pointer_down, nextId, status>>
       ELSE Dies("panic", "destroy_node")

\* variant: the layout entry goes, the registry entries stay
destroy_node_keeps_registry(node) ==
    /\ CanCall
    /\ GuiFrame
    /\ ControlFrame
    /\ IF TaffyRemoveOk(node)
       THEN /\ layoutNodes' = layoutNodes \ {node}
            /\ children' = TaffyRemoveChildren(node)
            /\ parents' = TaffyRemoveParents(node)
            /\ highlight' = Unhighlight(node)
            /\ destroyed' = destroyed \cup {node}
            /\ last' = Call("destroy_node", node, 0)
            /\ delivered' = <<>>
            /\ UNCHANGED <<nodes, widgets, box, pointer_down, nextId, status>>
       ELSE Dies("panic", "destroy_node")

\* Gui::destroy_node(node)
destroy_node(node) ==
    /\ CanCall
    /\ GuiFrame
    /\ ControlFrame
    /\ IF TaffyRemoveOk(node)
       THEN /\ layoutNodes' = layoutNodes \ {node}
            /\ children' = TaffyRemoveChildren(node)
            /\ parents' = TaffyRemoveParents(node)
            /\ nodes' = [nodes EXCEPT ![node] = NodeAbsent]
            /\ widgets' = [widgets EXCEPT ![node] = Absent]
            /\ highlight' = Unhighlight(node)
            /\ destroyed' = destroyed \cup {node}
            /\ last' = Call("destroy_node", node, 0)
            /\ delivered' = <<>>
            /\ UNCHANGED <<box, pointer_down, nextId, status>>
       ELSE Dies("panic", "destroy_node")

\* Gui::add_child(parent, child): TaffyTree::add_child sets parents[child],
\* then pushes child on children[parent]; it does not look for an old parent
add_child(parent, child) ==
    /\ CanCall
    /\ GuiFrame
    /\ ControlFrame
    /\ Live(parent) => Len(children[parent]) < MaxChildren
    /\ IF Live(parent) /\ Live(child)
       THEN \E out \in MarkDirtyOutcomes([parents EXCEPT ![child] = parent],
                                         parent) :
               IF out = "ok"
               THEN /\ parents' = [parents EXCEPT ![child] = parent]
                    /\ children' = [children EXCEPT ![parent] = Append(@, child)]
                    /\ last' = Call("add_child", 0, 0)
                    /\ delivered' = <<>>
                    /\ UNCHANGED <<layoutNodes, box, nodes, widgets, highlight,
                                   pointer_down, nextId, status, destroyed>>
               ELSE Dies("overflow", "add_child")
       ELSE Dies("panic", "add_child")

\* Gui::remove_child(parent, child): TaffyTree::remove_child takes out the
\* first occurrence of child in children[parent] and clears parents[child]
remove_child(parent, child) ==
    /\ CanCall
    /\ GuiFrame
    /\ ControlFrame
    /\ IF Live(parent) /\ Position(children[parent], child) # 0
                       /\ Live(child)
       THEN \E out \in MarkDirtyOutcomes([parents EXCEPT ![child] = NoParent],
                                         parent) :
               IF out = "ok"
               THEN /\ children' = [children EXCEPT ![parent] =
                                   RemoveAt(@, Position(children[parent], child))]
                    /\ parents' = [parents EXCEPT ![child] = NoParent]
                    /\ highlight' = Unhighlight(child)
                    /\ last' = Call("remove_child", child, 0)
                    /\ delivered' = <<>>
                    /\ UNCHANGED <<layoutNodes, box, nodes, widgets,
                                   pointer_down, nextId, status, destroyed>>
               ELSE Dies("overflow", "remove_child")
       ELSE Dies("panic", "remove_child")

\* Gui::set_style(node, style)
set_style(node) ==
    /\ CanCall
    /\ GuiFrame
    /\ ControlFrame
    /\ IF Live(node)
       THEN \E out \in MarkDirtyOutcomes(parents, node) :
               IF out = "ok"
               THEN /\ last' = Call("set_style", 0, 0)
                    /\ delivered' = <<>>
                    /\ UNCHANGED <<layoutNodes, children, parents, box, nodes,
                                   widgets, highlight, pointer_down, nextId,
                                   status, destroyed>>
               ELSE Dies("overflow", "set_style")
       ELSE Dies("panic", "set_style")

\* variant: a node without registry entry is skipped without failing
set_visual_skips_missing(node, visual) ==
    /\ CanCall
    /\ GuiFrame
    /\ ControlFrame
    /\ nodes' = IF nodes[node].entry
                THEN [nodes EXCEPT ![node].visual = visual] ELSE nodes
    /\ last' = Call("set_visual", 0, 0)
    /\ delivered' = <<>>
    /\ UNCHANGED <<layoutNodes, children, parents, box, widgets, highlight,
                   pointer_down, nextId, status, destroyed>>

\* Gui::set_visual(node, visual)
set_visual(node, visual) ==
    /\ CanCall
    /\ GuiFrame
    /\ ControlFrame
    /\ IF nodes[node].entry
       THEN /\ nodes' = [nodes EXCEPT ![node].visual = visual]
            /\ last' = Call("set_visual", 0, 0)
            /\ delivered' = <<>>
            /\ UNCHANGED <<layoutNodes, children, parents, box, widgets,
                           highlight, pointer_down, nextId, status, destroyed>>
       ELSE Dies("panic", "set_visual")

\* Gui::layout(width, height): compute_layout gives every node linked from the
\* root a location and size; the root gets the origin and the given size
layout ==
    /\ CanCall
    /\ GuiFrame
    /\ ControlFrame
    /\ IF ~Live(Root) \/ HasDangling
       THEN Dies("panic", "layout")
       ELSE IF HasCycle
       THEN Dies("overflow", "layout")
       ELSE /\ box' = [n \in NodeIds |->
                          IF n = Root THEN ScreenBox
                          ELSE IF n \in Reachable THEN StyleBox(n)
                          ELSE box[n]]
            /\ last' = Call("layout", 0, 0)
            /\ delivered' = <<>>
            /\ UNCHANGED <<layoutNodes, children, parents, nodes, widgets,
                           highlight, pointer_down, nextId, status, destroyed>>


\* what Widget::handle_pointer does to Gui.nodes when state is delivered to
\* the widget of node: Button / Checkbox call gui.set_visual(self.node,
\* Some(visual)) with a background, Label keeps the empty default handler
HandlePointer(reg, node, state) ==
    IF widgets[node] = "Button"
    THEN [reg EXCEPT ![node].visual = VisualButton]
    ELSE reg

\* deliveries made to the control of node, if it has one
Deliver(node, state) ==
    IF node # NoNode /\ widgets[node] # Absent
    THEN <<[node |-> node, state |-> state]>>
    ELSE <<>>

\* Gui.nodes after the deliveries in ds, in order
RECURSIVE AfterDeliveries(_, _)
AfterDeliveries(reg, ds) ==
    IF ds = <<>> THEN reg
    ELSE AfterDeliveries(HandlePointer(reg, Head(ds).node, Head(ds).state),
                         Tail(ds))

\* variant: the new highlight is served before the old one
MotionDeliveriesNewFirst(hit) ==
    IF hit # highlight
    THEN Deliver(hit, IF pointer_down THEN "Press" ELSE "Over")
         \o Deliver(highlight, "None")
    ELSE <<>>

\* variant: the hit is not compared with the stored highlight
MotionDeliveriesAlways(hit) ==
    Deliver(highlight, "None")
    \o Deliver(hit, IF pointer_down THEN "Press" ELSE "Over")

\* variant: the new highlight is served Over whether the button is down or not
MotionDeliveriesOverOnly(hit) ==
    IF hit # highlight
    THEN Deliver(highlight, "None") \o Deliver(hit, "Over")
    ELSE <<>>

\* the deliveries of handle_pointer_motion when the hit test gave hit
MotionDeliveries(hit) ==
    IF hit # highlight
    THEN Deliver(highlight, "None")
         \o Deliver(hit, IF pointer_down THEN "Press" ELSE "Over")
    ELSE <<>>

\* Gui::handle_pointer_motion(x, y)
handle_pointer_motion(p) ==
    /\ CanCall
    /\ GuiFrame
    /\ LET hit == HitTest(p)
       IN IF hit = Panic
          THEN Dies("panic", "handle_pointer_motion") /\ ControlFrame
          ELSE IF hit = Overflow
          THEN Dies("overflow", "handle_pointer_motion") /\ ControlFrame
          ELSE /\ delivered' = MotionDeliveries(hit)
               /\ nodes' = AfterDeliveries(nodes, MotionDeliveries(hit))
               /\ model' = ModelsAfter(model, MotionDeliveries(hit))
               /\ emitted' = EventsOf(model, MotionDeliveries(hit))
               /\ highlight' = hit
               /\ last' = Call("handle_pointer_motion", p[1], p[2])
               /\ UNCHANGED <<layoutNodes, children, parents, box, widgets,
                              pointer_down, nextId, status, destroyed>>

\* variant: the state delivered is read from the stored flag
ButtonDeliveriesStoredFlag(pressed) ==
    IF pointer_down = pressed THEN <<>>
    ELSE Deliver(highlight, IF pointer_down THEN "Press" ELSE "Over")

\* variant: no early return when the value is unchanged
ButtonDeliveriesNoReturn(pressed) ==
    Deliver(highlight, IF pressed THEN "Press" ELSE "Over")

\* the deliveries of handle_pointer_button(pressed)
ButtonDeliveries(pressed) ==
    IF pointer_down = pressed THEN <<>>
    ELSE Deliver(highlight, IF pressed THEN "Press" ELSE "Over")

\* Gui::handle_pointer_button(pressed)
handle_pointer_button(pressed) ==
    /\ CanCall
    /\ GuiFrame
    /\ delivered' = ButtonDeliveries(pressed)
    /\ nodes' = AfterDeliveries(nodes, ButtonDeliveries(pressed))
    /\ model' = ModelsAfter(model, ButtonDeliveries(pressed))
    /\ emitted' = EventsOf(model, ButtonDeliveries(pressed))
    /\ pointer_down' = pressed
    /\ last' = Call("handle_pointer_button", IF pressed THEN 1 ELSE 0, 0)
    /\ UNCHANGED <<layoutNodes, children, parents, box, widgets, highlight,
                   nextId, status, destroyed>>

\* one call Gui::render_node makes on the GuiRenderer
Cmd(node, cmd, x, y) == [node |-> node, cmd |-> cmd, x |-> x, y |-> y]

\* the paint calls of render_node for the node itself: background, border,
\* foreground, each only if the Visual has it; the border only if the style
\* has an edge wider than 0, the foreground only if the node has a widget
OwnPaint(node) ==
    IF nodes[node].entry /\ nodes[node].visual.some
    THEN (IF nodes[node].visual.background
          THEN <<Cmd(node, "background", 0, 0)>> ELSE <<>>)
         \o (IF nodes[node].visual.border /\ StyleBorder(node) > 0
             THEN <<Cmd(node, "border", 0, 0)>> ELSE <<>>)
         \o (IF nodes[node].visual.foreground /\ widgets[node] # Absent
             THEN <<Cmd(node, "foreground", 0, 0)>> ELSE <<>>)
    ELSE <<>>

\* Gui::render_node.  Result: the calls made on the renderer and how the
\* walk ended: "ok", "panic" (layout() of a removed NodeId indexes the slot
\* map) or "overflow" (the recursion re-enters a node: it never returns)
RECURSIVE render_node(_, _)
RECURSIVE RenderChildren(_, _, _)
\* the loop over child_ids(node), from the i-th child on
RenderChildren(node, i, path) ==
    IF i > Len(children[node]) THEN [out |-> <<>>, end |-> "ok"]
    ELSE LET r == render_node(children[node][i], path)
         IN IF r.end # "ok" THEN r
            ELSE LET rest == RenderChildren(node, i + 1, path)
                 IN [out |-> r.out \o rest.out, end |-> rest.end]

render_node(node, path) ==
    IF ~Live(node) THEN [out |-> <<>>, end |-> "panic"]
    ELSE IF node \in path THEN [out |-> <<>>, end |-> "overflow"]
    ELSE LET enter == <<Cmd(node, "save", 0, 0),
                        Cmd(node, "translate", box[node].x, box[node].y)>>
             kids == RenderChildren(node, 1, path \cup {node})
         IN IF kids.end # "ok"
            THEN [out |-> enter \o OwnPaint(node) \o kids.out,
                  end |-> kids.end]
            ELSE [out |-> enter \o OwnPaint(node) \o kids.out
                          \o <<Cmd(node, "restore", 0, 0)>>,
                  end |-> "ok"]

\* ---- silica::GuiRenderer: the translation and its stack ----

\* GuiRenderer::new
GuiRendererNew == [translation |-> <<0, 0>>, translation_stack |-> <<>>]

\* GuiRenderer::push_translation, which render_node calls as save()
push_translation(r) ==
    [r EXCEPT !.translation_stack = Append(@, r.translation)]

\* GuiRenderer::pop_translation, which render_node calls as restore()
pop_translation(r) ==
    [translation |-> r.translation_stack[Len(r.translation_stack)],
     translation_stack |->
         SubSeq(r.translation_stack, 1, Len(r.translation_stack) - 1)]

\* a translate that replaces the translation instead of adding to it
translate_replaces(r, tx, ty) == [r EXCEPT !.translation = <<tx, ty>>]

\* GuiRenderer::translate
translate(r, tx, ty) ==
    [r EXCEPT !.translation = <<@[1] + tx, @[2] + ty>>]

\* the GuiRenderer after one call of render_node
RendererApply(r, c) ==
    CASE c.cmd = "save" -> push_translation(r)
      [] c.cmd = "restore" -> pop_translation(r)
      [] c.cmd = "translate" -> translate(r, c.x, c.y)
      [] OTHER -> r

\* the GuiRenderer after the first k calls render_node made on it
RECURSIVE RendererAt(_)
RendererAt(k) ==
    IF k = 0 THEN GuiRendererNew
    ELSE RendererApply(RendererAt(k - 1), painted[k])

\* ---- GuiRenderer::draw_border and its PathBuilder ----
\* coordinates and widths of the path are in half pixels, so that the 0.5
\* insets and the half line widths are whole numbers

\* taffy::LengthPercentage
Length(v) == [kind |-> "Length", v |-> v]
Percent(v) == [kind |-> "Percent", v |-> v]
\* the edge widths a style gives to draw_border
BorderLengths == {Length(0), Length(1), Length(3), Percent(1)}
BorderRects ==
    [top : BorderLengths, right : BorderLengths,
     bottom : BorderLengths, left : BorderLengths]
\* the sizes of the painted node: not laid out, a square, a flat box
BorderSizes == {<<0, 0>>, <<100, 100>>, <<40, 20>>}

Abs(x) == IF x < 0 THEN 0 - x ELSE x
Min(a, b) == IF a < b THEN a ELSE b
Max(a, b) == IF a > b THEN a ELSE b

\* PathBuilder::new; out is the list of the queue_rect calls it makes
PathBuilderNew == [start |-> <<0, 0>>, line_width |-> 0, out |-> <<>>]
\* PathBuilder::set_line_width (width in pixels)
set_line_width(pb, width) == [pb EXCEPT !.line_width = 2 * width]
\* PathBuilder::move_to
move_to(pb, x, y) == [pb EXCEPT !.start = <<x, y>>]
\* PathBuilder::line_to: one queue_rect around the segment, then move_to
line_to(pb, x, y) ==
    LET line_extent == pb.line_width \div 2
        horizontal == Abs(x - pb.start[1]) > Abs(y - pb.start[2])
        rect_x == IF horizontal THEN Min(x, pb.start[1]) - line_extent
                  ELSE pb.start[1] - line_extent
        rect_y == IF horizontal THEN pb.start[2] - line_extent
                  ELSE Min(y, pb.start[2]) - line_extent
        rect_width == IF horizontal
                      THEN (Max(x, pb.start[1]) + line_extent) - rect_x
                      ELSE pb.line_width
        rect_height == IF horizontal THEN pb.line_width
                       ELSE (Max(y, pb.start[2]) + line_extent) - rect_y
    IN move_to([pb EXCEPT !.out =
                    Append(@, [cmd |-> "queue_rect", x |-> rect_x,
                               y |-> rect_y, w |-> rect_width,
                               h |-> rect_height])],
               x, y)

\* one edge of draw_border: a line of the edge's width, or only a move
BorderEdge(pb, width, x, y) ==
    IF width > 0 THEN line_to(set_line_width(pb, width), x, y)
    ELSE move_to(pb, x, y)

\* a draw_border that strokes every edge, whatever its width
draw_border_every_edge(size, border) ==
    LET w == 2 * size[1] - 1
        h == 2 * size[2] - 1
        p0 == move_to(PathBuilderNew, 1, 1)
        p1 == line_to(set_line_width(p0, border.top), w, 1)
        p2 == line_to(set_line_width(p1, border.right), w, h)
        p3 == line_to(set_line_width(p2, border.bottom), 1, h)
    IN line_to(set_line_width(p3, border.left), 1, 1).out

\* GuiRenderer::draw_border: the queue_rect calls, relative to the
\* translation in effect
draw_border(size, border) ==
    LET w == 2 * size[1] - 1
        h == 2 * size[2] - 1
        p0 == move_to(PathBuilderNew, 1, 1)
        p1 == BorderEdge(p0, border.top, w, 1)
        p2 == BorderEdge(p1, border.right, w, h)
        p3 == BorderEdge(p2, border.bottom, 1, h)
    IN (IF border.left > 0
        THEN line_to(set_line_width(p3, border.left), 1, 1)
        ELSE p3).out

\* the map over the style's border in render_node: a percentage counts as 0
BorderLength(val) == IF val.kind = "Length" THEN val.v ELSE 0
BorderSizeOf(style) ==
    [top |-> BorderLength(style.top), right |-> BorderLength(style.right),
     bottom |-> BorderLength(style.bottom), left |-> BorderLength(style.left)]

\* the border branch of render_node for a Visual with a border colour
RenderBorder(size, style) ==
    LET border_size == BorderSizeOf(style)
    IN IF \/ border_size.left > 0 \/ border_size.right > 0
          \/ border_size.top > 0 \/ border_size.bottom > 0
       THEN draw_border(size, border_size)
       ELSE <<>>

\* a node of the given size and style border is painted: the renderer
\* receives the queue_rect calls of its border
PaintBorder(size, style) ==
    /\ painted' = <<[cmd |-> "border", size |-> size, style |-> style]>>
                  \o RenderBorder(size, style)
    /\ UNCHANGED <<guiVars, quadVars, objVars, controlVars, inputVars>>

BorderNext ==
    \E size \in BorderSizes, style \in BorderRects : PaintBorder(size, style)

\* Gui::render(renderer): a fresh GuiRenderer, then render_node from the root
Gui_render ==
    /\ CanCall
    /\ UNCHANGED <<quadVars, objVars, controlVars, inputVars>>
    /\ LET r == render_node(Root, {})
       IN /\ painted' = r.out
          /\ status' = r.end
    /\ last' = Call("render", 0, 0)
    /\ delivered' = <<>>
    /\ UNCHANGED <<layoutNodes, children, parents, box, nodes, widgets,
                   highlight, pointer_down, nextId, destroyed>>

GuiNext ==
    \/ \E v \in VisualArgs : last.n < MaxCalls /\ create_node(v)
    \/ \E k \in WidgetKinds : last.n < MaxCalls /\ create_widget(k)
    \/ \E n \in NodeIds \ {Root} : last.n < MaxCalls /\ destroy_node(n)
    \/ \E par \in NodeIds, c \in NodeIds \ {Root} :
          last.n < MaxCalls /\ add_child(par, c)
    \/ \E par \in NodeIds, c \in NodeIds \ {Root} :
          last.n < MaxCalls /\ remove_child(par, c)
    \/ \E n \in NodeIds : last.n < MaxCalls /\ set_style(n)
    \/ \E n \in NodeIds, v \in VisualArgs :
          last.n < MaxCalls /\ set_visual(n, v)
    \/ last.n < MaxCalls /\ layout
    \/ \E p \in Points : last.n < MaxCalls /\ handle_pointer_motion(p)
    \/ \E b \in BOOLEAN : last.n < MaxCalls /\ handle_pointer_button(b)

\* ---- the painting specification: trees are built, laid out and painted ----

PaintNext ==
    \/ \E v \in VisualArgs : last.n < MaxPaintCalls /\ create_node(v)
    \/ last.n < MaxPaintCalls /\ create_widget("Button")
    \/ \E n \in NodeIds \ {Root} : last.n < MaxPaintCalls /\ destroy_node(n)
    \/ \E par \in NodeIds, c \in NodeIds \ {Root} :
          last.n < MaxPaintCalls /\ add_child(par, c)
    \/ last.n < MaxPaintCalls /\ layout
    \/ last.n < MaxPaintCalls /\ Gui_render

\* ---- the tree specification: any tree the four editing calls can build
\* is laid out, pointed at and painted ----

TreeNext ==
    \/ last.n < MaxTreeCalls /\ create_node(VisualButton)
    \/ \E n \in NodeIds \ {Root} : last.n < MaxTreeCalls /\ destroy_node(n)
    \/ \E par \in NodeIds, c \in NodeIds \ {Root} :
          last.n < MaxTreeCalls /\ add_child(par, c)
    \/ \E par \in NodeIds, c \in NodeIds \ {Root} :
          last.n < MaxTreeCalls /\ remove_child(par, c)
    \/ last.n < MaxTreeCalls /\ layout
    \/ \E p \in Points : last.n < MaxTreeCalls /\ handle_pointer_motion(p)
    \/ last.n < MaxTreeCalls /\ Gui_render

\* ---- the hit-test specification: trees of nodes with and without a
\* background, pointed at on the edges of the boxes ----

HitNext ==
    \/ \E v \in VisualArgs : last.n < MaxHitCalls /\ create_node(v)
    \/ \E k \in {"Button", "Label"} :
          last.n < MaxHitCalls /\ create_widget(k)
    \/ \E par \in NodeIds, c \in NodeIds \ {Root} :
          last.n < MaxHitCalls /\ add_child(par, c)
    \/ last.n < MaxHitCalls /\ layout
    \/ \E p \in ProbePoints :
          last.n < MaxHitCalls /\ handle_pointer_motion(p)

\* ---- the pointer specification: a tree is built parent before child, then
\* edited and pointed at; longer runs over fewer inputs ----

PointerNext ==
    \/ last.n < MaxPointerCalls /\ create_node(NoVisual)
    \/ last.n < MaxPointerCalls /\ create_widget("Button")
    \/ \E n \in NodeIds \ {Root} : last.n < MaxPointerCalls /\ destroy_node(n)
    \/ \E par \in NodeIds, c \in NodeIds \ {Root} :
          last.n < MaxPointerCalls /\ par < c /\ add_child(par, c)
    \/ \E par \in NodeIds, c \in NodeIds \ {Root} :
          last.n < MaxPointerCalls /\ par < c /\ remove_child(par, c)
    \/ last.n < MaxPointerCalls /\ layout
    \/ \E p \in Points : last.n < MaxPointerCalls /\ handle_pointer_motion(p)
    \/ \E b \in BOOLEAN : last.n < MaxPointerCalls /\ handle_pointer_button(b)



\* ---- the calls on the InputSystem; they are counted with the Gui calls ----

InputFrame ==
    UNCHANGED <<quadVars, objVars, rendererVars, controlVars, layoutNodes,
                children, parents, box, nodes, widgets, highlight,
                pointer_down, nextId, status, delivered, destroyed>>

\* InputSystem::get(key)
InputSystem_get(key) ==
    /\ CanCall
    /\ InputFrame
    /\ input' = [input EXCEPT !.got = get_result(key)]
    /\ last' = Call("InputSystem::get", 0, 0)

\* InputSystem::handle_event(event) for a key or mouse button event
InputSystem_handle_event(ev) ==
    /\ CanCall
    /\ InputFrame
    /\ input' =
          [input EXCEPT
              !.actions = [k \in DOMAIN input.actions |->
                  LET r == BindingEvent(k, ev)
                  IN IF r.some /\ input.actions[k].state # r.state
                     THEN [changed |-> TRUE, state |-> r.state]
                     ELSE input.actions[k]],
              !.primary = IF BindingEvent("primary", ev).some
                          THEN as_button(BindingEvent("primary", ev).state)
                          ELSE @]
    /\ last' = Call("InputSystem::handle_event", 0, 0)

\* InputSystem::end_frame
InputSystem_end_frame ==
    /\ CanCall
    /\ InputFrame
    /\ input' = [input EXCEPT !.actions =
                    [k \in DOMAIN input.actions |->
                        [input.actions[k] EXCEPT !.changed = FALSE]]]
    /\ last' = Call("InputSystem::end_frame", 0, 0)

\* ---- the controls on their own: states are delivered to them directly ----

ControlFrameRest ==
    UNCHANGED <<quadVars, objVars, rendererVars, inputVars, layoutNodes,
                children, parents, box, nodes, widgets, highlight,
                pointer_down, nextId, status, last, destroyed>>

\* Control::handle_pointer(state) on the control of node
Control_deliver(node, state) ==
    /\ ControlFrameRest
    /\ delivered' = <<[node |-> node, state |-> state]>>
    /\ model' = ModelsAfter(model, <<[node |-> node, state |-> state]>>)
    /\ emitted' = EventsOf(model, <<[node |-> node, state |-> state]>>)

\* Button::set_enabled / Checkbox::set_enabled on the control of node
Control_set_enabled(node, enabled) ==
    /\ ControlFrameRest
    /\ delivered' = <<>>
    /\ model' = [model EXCEPT ![node].enabled = enabled]
    /\ emitted' = <<>>

ControlNext ==
    \/ \E node \in NodeIds \ {Root}, state \in PointerStates :
          Control_deliver(node, state)
    \/ \E node \in NodeIds \ {Root}, enabled \in BOOLEAN :
          Control_set_enabled(node, enabled)

\* ---- the specification of the lookups that find nothing: nodes with and
\* without a control are pointed at, bound and unbound actions are read ----

MissingNext ==
    \/ last.n < MaxMissingCalls /\ create_node(VisualButton)
    \/ last.n < MaxMissingCalls /\ create_widget("Button")
    \/ \E par \in NodeIds, c \in NodeIds \ {Root} :
          last.n < MaxMissingCalls /\ par < c /\ add_child(par, c)
    \/ last.n < MaxMissingCalls /\ layout
    \/ \E p \in Points : last.n < MaxMissingCalls /\ handle_pointer_motion(p)
    \/ \E b \in BOOLEAN : last.n < MaxMissingCalls /\ handle_pointer_button(b)
    \/ \E ev \in InputEvents :
          last.n < MaxMissingCalls /\ InputSystem_handle_event(ev)
    \/ last.n < MaxMissingCalls /\ InputSystem_end_frame
    \/ \E key \in ActionNames :
          last.n < MaxMissingCalls /\ InputSystem_get(key)

----------------------------------------------------------------------------
(* gristmill::two::QuadRenderer -- values and pure helpers *)
(* Lengths are integers: the arguments of queue() are in half pixels, the  *)
(* scale is in halves, and every stored coordinate is in quarter pixels.   *)

\* Rect accessors on <<x, y, w, h>>
RectX(r) == r[1]
RectY(r) == r[2]
RectW(r) == r[3]
RectH(r) == r[4]

\* f32::round on quarter pixels: nearest whole pixel, halves away from zero
Round4(q) == IF q >= 0 THEN ((q + 2) \div 4) * 4 ELSE 0 - (((2 - q) \div 4) * 4)
\* f32::ceil on quarter pixels (variant)
Ceil4(q) == ((q + 3) \div 4) * 4
\* f32::floor on quarter pixels
Floor4(q) == (q \div 4) * 4

\* QuadRenderer::transform: scale, then round the position and floor the
\* size when pixel_perfect.  Half pixels times halves are quarter pixels.
transform(rect) ==
    LET x == RectX(rect) * scale
        y == RectY(rect) * scale
        w == RectW(rect) * scale
        h == RectH(rect) * scale
    IN IF pixel_perfect
       THEN <<Round4(x), Round4(y), Floor4(w), Floor4(h)>>
       ELSE <<x, y, w, h>>

\* the rectangle queue() tests against the screen: transformed, then moved
\* by the scroll offset when quad.scroll
Scrolled(q) ==
    LET r == transform(q.rect)
    IN IF q.scroll
       THEN <<RectX(r) - scroll_offset[1], RectY(r) - scroll_offset[2],
              RectW(r), RectH(r)>>
       ELSE r

\* first early return of queue(): the transformed rect is empty
EmptyRect(q) ==
    LET r == transform(q.rect) IN RectW(r) <= 0 \/ RectH(r) <= 0

\* second early return of queue(): "rect is outside of the screen"
OffScreen(q) ==
    LET r == Scrolled(q)
    IN \/ RectX(r) + RectW(r) < 0
       \/ RectY(r) + RectH(r) < 0
       \/ RectX(r) >= screen_size[1]
       \/ RectY(r) >= screen_size[2]

\* queue() appends the quad
Accepted(q) == ~EmptyRect(q) /\ ~OffScreen(q)

\* uv of the queued Quad: uv_rect is Rect::ONE, flipped per axis
FlipUV(flip) ==
    <<IF flip[1] THEN 1 ELSE 0, IF flip[2] THEN 1 ELSE 0,
      IF flip[1] THEN 0 - 1 ELSE 1, IF flip[2] THEN 0 - 1 ELSE 1>>

\* InstanceRange::Instances(texture, start..end) and InstanceRange::Text(layer)
Instances(texture, start, end) ==
    [kind |-> "Instances", texture |-> texture, start |-> start, end |-> end,
     layer |-> 0]
Text(layer) ==
    [kind |-> "Text", texture |-> "", start |-> 0, end |-> 0, layer |-> layer]

\* variant: the texture of the last range is not compared
RangesAfterQuadAnyTexture(ranges, texture, end) ==
    IF ranges # <<>> /\ ranges[Len(ranges)].kind = "Instances"
    THEN [ranges EXCEPT ![Len(ranges)].end = end]
    ELSE Append(ranges, Instances(texture, end - 1, end))

\* variant: every accepted quad gets a range of its own
RangesAfterQuadAlwaysNew(ranges, texture, end) ==
    Append(ranges, Instances(texture, end - 1, end))

\* the range list after queue() pushed the quad that made the accumulator
\* end long: the last range grows when it is Instances of the same texture,
\* else a new range start..end is pushed
RangesAfterQuad(ranges, texture, end) ==
    IF /\ ranges # <<>>
       /\ ranges[Len(ranges)].kind = "Instances"
       /\ ranges[Len(ranges)].texture = texture
    THEN [ranges EXCEPT ![Len(ranges)].end = end]
    ELSE Append(ranges, Instances(texture, end - 1, end))

\* a next that never leaves the layer (variant)
GlyphLayerNextStays(gl) == [gl EXCEPT !.combine = TRUE]
\* GlyphLayer::next
GlyphLayerNext(gl) ==
    IF ~gl.combine THEN [layer |-> gl.layer + 1, combine |-> TRUE] ELSE gl
\* a finish that leaves the layer combining (variant)
GlyphLayerFinishKeeps(gl) == gl
\* GlyphLayer::finish
GlyphLayerFinish(gl) == [gl EXCEPT !.combine = FALSE]
\* GlyphLayer::new
GlyphLayerNew == [layer |-> 0, combine |-> TRUE]
\* a reset that leaves the layer counter where the frame ended (variant)
GlyphLayerResetKeeps(gl) == gl
\* GlyphLayer::reset
GlyphLayerReset(gl) == [layer |-> 0, combine |-> TRUE]

\* the glyphs a text needs in the atlas
GlyphsOf(text) ==
    IF text = "ab" THEN {"a", "b"}
    ELSE IF text = "cd" THEN {"c", "d"}
    ELSE IF text = "a" THEN {"a"} ELSE {}

\* glyph slots of the atlas the glyph brush is built with
AtlasInit == 1
\* last_draw of a glyph brush that has drawn nothing yet
NoDraw == <<[text |-> "-", z |-> 0 - 1]>>

RECURSIVE GlyphsQueued(_)
GlyphsQueued(queue) ==
    IF queue = <<>> THEN {}
    ELSE GlyphsOf(Head(queue).text) \cup GlyphsQueued(Tail(queue))

\* GlyphBrush::process_queued on the brush b: "ReDraw" when the queued
\* sections hash like the last drawn ones, "TextureTooSmall" when the queued
\* glyphs do not fit the atlas, else "Draw"
BrushAction(b) ==
    IF b.queue = b.last_draw THEN "ReDraw"
    ELSE IF Cardinality(GlyphsQueued(b.queue)) > b.capacity
    THEN "TextureTooSmall"
    ELSE "Draw"

\* a loop that gives up after one resize_texture (variant)
ResizesNeededOnce(b, cap) ==
    IF b.queue = b.last_draw \/ Cardinality(GlyphsQueued(b.queue)) <= cap
    THEN 0
    ELSE 1

\* number of resize_texture calls the loop of process_queued_text makes
\* before process_queued succeeds on brush b with an atlas of cap slots
RECURSIVE ResizesNeeded(_, _)
ResizesNeeded(b, cap) ==
    IF b.queue = b.last_draw \/ Cardinality(GlyphsQueued(b.queue)) <= cap
    THEN 0
    ELSE 1 + ResizesNeeded([b EXCEPT !.last_draw = NoDraw], 2 * cap)

\* atlas slots after n doublings
RECURSIVE Doubled(_, _)
Doubled(cap, n) == IF n = 0 THEN cap ELSE Doubled(2 * cap, n - 1)

\* a brush whose atlas and raster cache start over each frame (variant)
BrushAfterProcessReset(b) ==
    [queue |-> <<>>, last_draw |-> b.queue, cache |-> {},
     capacity |-> AtlasInit]

\* the brush after the loop of process_queued_text
BrushAfterProcess(b) ==
    LET n == ResizesNeeded(b, b.capacity)
        cap == Doubled(b.capacity, n)
        redraw == n = 0 /\ b.queue = b.last_draw
    IN [queue |-> <<>>,
        last_draw |-> b.queue,
        cache |-> IF redraw THEN b.cache
                  ELSE IF n > 0 THEN GlyphsQueued(b.queue)
                  ELSE IF Cardinality(b.cache \cup GlyphsQueued(b.queue)) <= cap
                  THEN b.cache \cup GlyphsQueued(b.queue)
                  ELSE GlyphsQueued(b.queue),
        capacity |-> cap]

\* the glyph vertices a text is drawn with, one per glyph
GlyphSeq(text) ==
    IF text = "ab" THEN <<"a", "b">>
    ELSE IF text = "cd" THEN <<"c", "d">>
    ELSE IF text = "a" THEN <<"a">> ELSE <<>>

\* glyph instances of layer z among the queued sections
RECURSIVE LayerGlyphs(_, _)
LayerGlyphs(queue, z) ==
    IF queue = <<>> THEN <<>>
    ELSE (IF Head(queue).z = z THEN GlyphSeq(Head(queue).text) ELSE <<>>)
         \o LayerGlyphs(Tail(queue), z)

\* variant: the table is rebuilt with one entry per layer above layer 0
GlyphInstancesAfterNoSpare(b) ==
    IF ResizesNeeded(b, b.capacity) = 0 /\ b.queue = b.last_draw
    THEN glyph_instances
    ELSE [i \in 1..glyph_layer.layer |-> LayerGlyphs(b.queue, i - 1)]

\* glyph_instances after process_queued_text: rebuilt with layer + 1 entries
\* on BrushAction::Draw, kept on BrushAction::ReDraw
GlyphInstancesAfter(b) ==
    IF ResizesNeeded(b, b.capacity) = 0 /\ b.queue = b.last_draw
    THEN glyph_instances
    ELSE [i \in 1..(glyph_layer.layer + 1) |-> LayerGlyphs(b.queue, i - 1)]

\* a draw call that takes the whole instance accumulator for an Instances
\* range (variant)
DrawOfWholeBuffer(range, table) ==
    IF range.kind = "Instances"
    THEN [tex |-> range.texture, mask |-> "white",
          items |-> instances, count |-> Len(instances)]
    ELSE [tex |-> "white", mask |-> "atlas",
          items |-> IF range.layer + 1 <= Len(table)
                    THEN table[range.layer + 1] ELSE <<>>,
          count |-> IF range.layer + 1 <= Len(table)
                    THEN Len(table[range.layer + 1]) ELSE 0 - 1]

\* the draw call render() issues for one range: the two images bound, the
\* instances uploaded to the instance buffer and their count; count -1 stands
\* for glyph_instances[layer] out of bounds
DrawOf(range, table) ==
    IF range.kind = "Instances"
    THEN [tex |-> range.texture, mask |-> "white",
          items |-> SubSeq(instances, range.start + 1, range.end),
          count |-> range.end - range.start]
    ELSE [tex |-> "white", mask |-> "atlas",
          items |-> IF range.layer + 1 <= Len(table)
                    THEN table[range.layer + 1] ELSE <<>>,
          count |-> IF range.layer + 1 <= Len(table)
                    THEN Len(table[range.layer + 1]) ELSE 0 - 1]

----------------------------------------------------------------------------
(* gristmill::two::QuadRenderer -- operations *)

\* textures handed to queue(); "white" is the white pixel of texture: None
Textures == {"A", "B"}
\* texts handed to queue_text
Texts == {"a", "ab", "cd"}

QuadArg(texture, rect, flip, scroll) ==
    [texture |-> texture, rect |-> rect, flip |-> flip, scroll |-> scroll]

\* QuadRenderer::new(context, fonts, pixel_perfect)
QuadInit(pp) ==
    /\ pixel_perfect = pp
    /\ instances = <<>>
    /\ instance_ranges = <<>>
    /\ screen_size = <<4, 4>>
    /\ scroll_offset = <<0, 0>>
    /\ scale = 2
    /\ glyph_layer = GlyphLayerNew
    /\ glyph_instances = <<>>
    /\ glyph_texture = AtlasInit
    /\ brush = [queue |-> <<>>, last_draw |-> NoDraw, cache |-> {},
                capacity |-> AtlasInit]
    /\ frame = [calls |-> <<>>, frames |-> 0, resizes |-> 0, draws |-> <<>>,
                action |-> "None", status |-> "ok", n |-> 0]

QuadAlive == frame.status = "ok"

\* the record of the calls: a queue call is listed, any call counts, and the
\* report of the last render is dropped
Called(call) ==
    [frame EXCEPT !.calls = Append(@, call), !.n = @ + 1, !.resizes = 0,
                  !.draws = <<>>, !.action = "None"]
Configured ==
    [frame EXCEPT !.n = @ + 1, !.resizes = 0, !.draws = <<>>,
                  !.action = "None"]

\* QuadRenderer::queue(quad)
queue(q) ==
    /\ QuadAlive
    /\ QuadFrame
    /\ frame' = Called([kind |-> "quad", texture |-> q.texture,
                         accepted |-> Accepted(q), z |-> 0])
    /\ IF Accepted(q)
       THEN /\ glyph_layer' = GlyphLayerFinish(glyph_layer)
            /\ instances' = Append(instances, [rect |-> Scrolled(q),
                                               uv |-> FlipUV(q.flip)])
            /\ instance_ranges' = RangesAfterQuad(instance_ranges, q.texture,
                                                  Len(instances) + 1)
       ELSE UNCHANGED <<glyph_layer, instances, instance_ranges>>
    /\ UNCHANGED <<pixel_perfect, screen_size, scroll_offset, scale,
                   glyph_instances, glyph_texture, brush>>

\* <QuadRenderer as silica::Renderer>::queue_text(section)
queue_text(text) ==
    /\ QuadAlive
    /\ QuadFrame
    /\ LET gl == GlyphLayerNext(glyph_layer)
       IN /\ glyph_layer' = gl
          /\ brush' = [brush EXCEPT
                         !.queue = Append(@, [text |-> text, z |-> gl.layer])]
          /\ instance_ranges' =
                IF instance_ranges # <<>>
                   /\ instance_ranges[Len(instance_ranges)].kind = "Text"
                THEN instance_ranges
                ELSE Append(instance_ranges, Text(gl.layer))
          /\ frame' = Called([kind |-> "text", texture |-> "",
                               accepted |-> TRUE, z |-> gl.layer])
    /\ UNCHANGED <<pixel_perfect, instances, screen_size, scroll_offset, scale,
                   glyph_instances, glyph_texture>>

\* QuadRenderer::set_screen_size(width, height)
set_screen_size(w, h) ==
    /\ QuadAlive
    /\ QuadFrame
    /\ screen_size' = <<w, h>>
    /\ frame' = Configured
    /\ UNCHANGED <<pixel_perfect, instances, instance_ranges, scroll_offset,
                   scale, glyph_layer, glyph_instances, glyph_texture, brush>>

\* QuadRenderer::set_scroll_offset(scroll)
set_scroll_offset(x, y) ==
    /\ QuadAlive
    /\ QuadFrame
    /\ scroll_offset' = IF pixel_perfect THEN <<Round4(x), Round4(y)>>
                        ELSE <<x, y>>
    /\ frame' = Configured
    /\ UNCHANGED <<pixel_perfect, instances, instance_ranges, screen_size,
                   scale, glyph_layer, glyph_instances, glyph_texture, brush>>

\* QuadRenderer::set_scale(scale)
set_scale(sc) ==
    /\ QuadAlive
    /\ QuadFrame
    /\ scale' = sc
    /\ frame' = Configured
    /\ UNCHANGED <<pixel_perfect, instances, instance_ranges, screen_size,
                   scroll_offset, glyph_layer, glyph_instances, glyph_texture,
                   brush>>

\* QuadRenderer::render(context): process_queued_text, one draw per range,
\* then the per-frame reset
render ==
    /\ QuadAlive
    /\ QuadFrame
    /\ LET table == GlyphInstancesAfter(brush)
           draws == [i \in 1..Len(instance_ranges) |->
                        DrawOf(instance_ranges[i], table)]
           oob == \E i \in 1..Len(draws) : draws[i].count < 0
       IN /\ brush' = BrushAfterProcess(brush)
          /\ glyph_texture' = Doubled(brush.capacity,
                                      ResizesNeeded(brush, brush.capacity))
          /\ glyph_instances' = table
          /\ frame' = [calls |-> <<>>, frames |-> frame.frames + 1,
                       resizes |-> ResizesNeeded(brush, brush.capacity),
                       draws |-> draws,
                       action |-> IF brush.queue = brush.last_draw
                                  THEN "ReDraw" ELSE "Draw",
                       status |-> IF oob THEN "panic" ELSE "ok",
                       n |-> frame.n + 1]
          /\ instance_ranges' = <<>>
          /\ instances' = IF oob THEN instances ELSE <<>>
          /\ glyph_layer' = IF oob THEN glyph_layer
                           ELSE GlyphLayerReset(glyph_layer)
    /\ UNCHANGED <<pixel_perfect, screen_size, scroll_offset, scale>>

\* ---- the batching specification: quads that differ in texture, text ----

\* on the 1x1 start screen: 10x10 px at the origin is on screen, the same
\* quad at x = 10 px is off screen
BatchQuads ==
    {QuadArg(t, <<0, 0, 20, 20>>, <<FALSE, FALSE>>, TRUE) : t \in Textures}
    \cup {QuadArg("A", <<20, 0, 20, 20>>, <<FALSE, FALSE>>, TRUE)}

QuadNext ==
    \/ \E q \in BatchQuads : frame.n < MaxQuadCalls /\ queue(q)
    \/ \E t \in Texts : frame.n < MaxQuadCalls /\ queue_text(t)
    \/ frame.n < MaxQuadCalls /\ render

\* ---- the culling specification: one quad, varied geometry ----

\* rect arguments in half pixels: x and width vary, y and height are fixed
CullRects ==
    {<<x, 0, w, 20>> : x \in {0 - 21, 0 - 20, 0 - 1, 0, 19, 20, 21},
                       w \in {0 - 20, 0, 1, 3, 20}}
CullQuads ==
    {QuadArg("A", r, f, sc) : r \in CullRects,
                              f \in {<<FALSE, FALSE>>, <<TRUE, FALSE>>},
                              sc \in BOOLEAN}

CullNext ==
    \/ \E q \in CullQuads : frame.n < MaxCullCalls /\ queue(q)
    \/ \E w \in {4, 40} : frame.n < MaxCullCalls /\ set_screen_size(w, 40)
    \/ \E x \in {0, 6, 40} : frame.n < MaxCullCalls /\ set_scroll_offset(x, 0)
    \/ \E sc \in {1, 2, 4} : frame.n < MaxCullCalls /\ set_scale(sc)


----------------------------------------------------------------------------
(* grist::Obj, grist::WeakObj -- one value, driven by one thread: a panic   *)
(* ends the run, so the poisoning of the locks is never seen               *)

HandleIds == 1..MaxHandles
\* call sites of get / get_mut (std::panic::Location::caller())
Locations == {"L1", "L2"}
\* Option<Location>::None
NoLocation == "None"

\* a free handle id
FreeId(used) == CHOOSE i \in HandleIds \ used : \A j \in HandleIds \ used : i <= j

\* variant: read() in place of try_read()
RwRead(l) == IF l.writer THEN "Wait" ELSE "Ok"
\* RwLock::try_read: granted unless the lock is held exclusively
try_read(l) == IF l.writer THEN "WouldBlock" ELSE "Ok"
\* variant: a writer may take the lock it already holds
try_write_reentrant(l) == IF l.readers > 0 THEN "WouldBlock" ELSE "Ok"
\* RwLock::try_write: granted when the lock is not held at all
try_write(l) == IF l.writer \/ l.readers > 0 THEN "WouldBlock" ELSE "Ok"

\* variant: the value is dropped only with the last handle of either kind
DropStrongKeptByWeak(a) ==
    [a EXCEPT !.strong = @ - 1,
              !.value = IF a.strong = 1 /\ a.weak = 0 THEN "dropped" ELSE @]
\* drop of an Arc: the value is dropped with the last strong reference
DropStrong(a) ==
    [a EXCEPT !.strong = @ - 1,
              !.value = IF a.strong = 1 THEN "dropped" ELSE @]

\* Weak::strong_count
strong_count(a) == a.strong

\* Obj::new(value)
ObjInit ==
    /\ objs = {1}
    /\ weaks = {}
    /\ arc = [strong |-> 1, weak |-> 0, value |-> "alive"]
    /\ inner = [readers |-> 0, writer |-> FALSE]
    /\ last_used = NoLocation
    /\ guards = <<>>
    /\ ocall = [op |-> "new", outcome |-> "obj", reported |-> NoLocation,
                status |-> "ok", n |-> 0]

ObjCanCall == ocall.status = "ok" /\ ocall.n < MaxObjCalls

Returned(op, outcome) ==
    [op |-> op, outcome |-> outcome, reported |-> NoLocation, status |-> "ok",
     n |-> ocall.n + 1]

\* panic!("Obj<{}> already borrowed at {}", .., previous_location), or
\* "unknown error" when last_used is None
Panicked(op) ==
    [op |-> op, outcome |-> "panic", reported |-> last_used,
     status |-> "panic", n |-> ocall.n + 1]

\* <Obj as Clone>::clone
obj_clone(h) ==
    /\ ObjCanCall
    /\ ObjFrame
    /\ h \in objs
    /\ objs # HandleIds
    /\ objs' = objs \cup {FreeId(objs)}
    /\ arc' = [arc EXCEPT !.strong = @ + 1]
    /\ ocall' = Returned("clone", "obj")
    /\ UNCHANGED <<weaks, inner, last_used, guards>>

\* drop of an Obj; a guard borrows the handle it was taken from
obj_drop(h) ==
    /\ ObjCanCall
    /\ ObjFrame
    /\ h \in objs
    /\ \A i \in 1..Len(guards) : guards[i].handle # h
    /\ objs' = objs \ {h}
    /\ arc' = DropStrong(arc)
    /\ ocall' = Returned("drop", "unit")
    /\ UNCHANGED <<weaks, inner, last_used, guards>>

\* Obj::downgrade
downgrade(h) ==
    /\ ObjCanCall
    /\ ObjFrame
    /\ h \in objs
    /\ weaks # HandleIds
    /\ weaks' = weaks \cup {FreeId(weaks)}
    /\ arc' = [arc EXCEPT !.weak = @ + 1]
    /\ ocall' = Returned("downgrade", "weak")
    /\ UNCHANGED <<objs, inner, last_used, guards>>

\* <WeakObj as Clone>::clone
weak_clone(w) ==
    /\ ObjCanCall
    /\ ObjFrame
    /\ w \in weaks
    /\ weaks # HandleIds
    /\ weaks' = weaks \cup {FreeId(weaks)}
    /\ arc' = [arc EXCEPT !.weak = @ + 1]
    /\ ocall' = Returned("weak_clone", "weak")
    /\ UNCHANGED <<objs, inner, last_used, guards>>

\* drop of a WeakObj
weak_drop(w) ==
    /\ ObjCanCall
    /\ ObjFrame
    /\ w \in weaks
    /\ weaks' = weaks \ {w}
    /\ arc' = [arc EXCEPT !.weak = @ - 1]
    /\ ocall' = Returned("weak_drop", "unit")
    /\ UNCHANGED <<objs, inner, last_used, guards>>

\* WeakObj::exists
exists(w) ==
    /\ ObjCanCall
    /\ ObjFrame
    /\ w \in weaks
    /\ ocall' = Returned("exists",
                         IF strong_count(arc) > 0 THEN "true" ELSE "false")
    /\ UNCHANGED <<objs, weaks, arc, inner, last_used, guards>>

\* WeakObj::try_upgrade
try_upgrade(w) ==
    /\ ObjCanCall
    /\ ObjFrame
    /\ w \in weaks
    /\ IF strong_count(arc) > 0
       THEN /\ objs # HandleIds
            /\ objs' = objs \cup {FreeId(objs)}
            /\ arc' = [arc EXCEPT !.strong = @ + 1]
            /\ ocall' = Returned("try_upgrade", "some")
       ELSE /\ ocall' = Returned("try_upgrade", "none")
            /\ UNCHANGED <<objs, arc>>
    /\ UNCHANGED <<weaks, inner, last_used, guards>>

\* WeakObj::upgrade
upgrade(w) ==
    /\ ObjCanCall
    /\ ObjFrame
    /\ w \in weaks
    /\ IF strong_count(arc) > 0
       THEN /\ objs # HandleIds
            /\ objs' = objs \cup {FreeId(objs)}
            /\ arc' = [arc EXCEPT !.strong = @ + 1]
            /\ ocall' = Returned("upgrade", "obj")
       ELSE /\ ocall' = [op |-> "upgrade", outcome |-> "panic",
                         reported |-> NoLocation, status |-> "panic",
                         n |-> ocall.n + 1]
            /\ UNCHANGED <<objs, arc>>
    /\ UNCHANGED <<weaks, inner, last_used, guards>>

\* how a call on the lock that must wait ends: the one thread never resumes
Waits(op) ==
    [op |-> op, outcome |-> "blocked", reported |-> NoLocation,
     status |-> "blocked", n |-> ocall.n + 1]

\* Obj::get, called at loc
get(h, loc) ==
    /\ ObjCanCall
    /\ ObjFrame
    /\ h \in objs
    /\ Len(guards) < MaxGuards
    /\ IF try_read(inner) = "Ok"
       THEN /\ inner' = [inner EXCEPT !.readers = @ + 1]
            /\ last_used' = loc
            /\ guards' = Append(guards, [handle |-> h, kind |-> "read",
                                         loc |-> loc])
            /\ ocall' = Returned("get", "guard")
       ELSE /\ ocall' = IF try_read(inner) = "WouldBlock"
                        THEN Panicked("get") ELSE Waits("get")
            /\ UNCHANGED <<inner, last_used, guards>>
    /\ UNCHANGED <<objs, weaks, arc>>

\* Obj::get_mut, called at loc
get_mut(h, loc) ==
    /\ ObjCanCall
    /\ ObjFrame
    /\ h \in objs
    /\ IF try_write(inner) = "Ok"
       THEN /\ inner' = [inner EXCEPT !.writer = TRUE]
            /\ last_used' = loc
            /\ guards' = Append(guards, [handle |-> h, kind |-> "write",
                                         loc |-> loc])
            /\ ocall' = Returned("get_mut", "guard")
       ELSE /\ ocall' = IF try_write(inner) = "WouldBlock"
                        THEN Panicked("get_mut") ELSE Waits("get_mut")
            /\ UNCHANGED <<inner, last_used, guards>>
    /\ UNCHANGED <<objs, weaks, arc>>

\* drop of the i-th guard held: RwLockReadGuard / RwLockWriteGuard unlock
guard_drop(i) ==
    /\ ObjCanCall
    /\ ObjFrame
    /\ i \in 1..Len(guards)
    /\ inner' = IF guards[i].kind = "write"
                THEN [inner EXCEPT !.writer = FALSE]
                ELSE [inner EXCEPT !.readers = @ - 1]
    /\ guards' = [k \in 1..(Len(guards) - 1) |->
                     IF k < i THEN guards[k] ELSE guards[k + 1]]
    /\ ocall' = Returned("guard_drop", "unit")
    /\ UNCHANGED <<objs, weaks, arc, last_used>>

\* ---- the cell of one widget as Gui uses it: handle 1 is the Obj stored in
\* Gui.widgets; a delivery or a paint that is under way holds a guard, and
\* the handler or paint callback may call back before it returns ----

\* the call site of widget.get_mut() / widget.get() in Gui; the handlers,
\* the paint callbacks and the application call from the sites in Locations
GuiSite == "Gui"

\* handle_pointer_motion / handle_pointer_button reach
\* self.widgets.get(&node).cloned() and widget.get_mut(): the delivery starts
\* holding a write guard taken through the clone, or panics
Cell_deliver ==
    /\ ObjCanCall
    /\ ObjFrame
    /\ 1 \in objs
    /\ IF try_write(inner) = "Ok"
       THEN /\ objs # HandleIds
            /\ objs' = objs \cup {FreeId(objs)}
            /\ arc' = [arc EXCEPT !.strong = @ + 1]
            /\ inner' = [inner EXCEPT !.writer = TRUE]
            /\ last_used' = GuiSite
            /\ guards' = Append(guards, [handle |-> FreeId(objs),
                                         kind |-> "write", loc |-> GuiSite])
            /\ ocall' = Returned("deliver", "guard")
       ELSE /\ ocall' = Panicked("deliver")
            /\ UNCHANGED <<objs, arc, inner, last_used, guards>>
    /\ UNCHANGED weaks

\* render_node reaches self.widgets.get(&node) and widget.get(): the paint
\* starts holding a read guard, or panics
Cell_paint ==
    /\ ObjCanCall
    /\ ObjFrame
    /\ 1 \in objs
    /\ Len(guards) < MaxGuards
    /\ IF try_read(inner) = "Ok"
       THEN /\ inner' = [inner EXCEPT !.readers = @ + 1]
            /\ last_used' = GuiSite
            /\ guards' = Append(guards, [handle |-> 1, kind |-> "read",
                                         loc |-> GuiSite])
            /\ ocall' = Returned("paint", "guard")
       ELSE /\ ocall' = Panicked("paint")
            /\ UNCHANGED <<inner, last_used, guards>>
    /\ UNCHANGED <<objs, weaks, arc>>

\* the innermost delivery or paint returns: the temporary guard is dropped at
\* the end of the statement, and with it the clone a delivery was made through
Cell_return ==
    /\ ObjCanCall
    /\ ObjFrame
    /\ guards # <<>>
    /\ guards[Len(guards)].loc = GuiSite
    /\ LET g == guards[Len(guards)]
       IN /\ inner' = IF g.kind = "write"
                      THEN [inner EXCEPT !.writer = FALSE]
                      ELSE [inner EXCEPT !.readers = @ - 1]
          /\ objs' = IF g.kind = "write" THEN objs \ {g.handle} ELSE objs
          /\ arc' = IF g.kind = "write" THEN DropStrong(arc) ELSE arc
    /\ guards' = SubSeq(guards, 1, Len(guards) - 1)
    /\ ocall' = Returned("return", "unit")
    /\ UNCHANGED <<weaks, last_used>>

\* the innermost guard, taken by a handler, a paint callback or the
\* application itself, goes out of scope
Cell_handler_drop ==
    /\ guards # <<>>
    /\ guards[Len(guards)].loc # GuiSite
    /\ guard_drop(Len(guards))

CellNext ==
    \/ Cell_deliver
    \/ Cell_paint
    \/ Cell_return
    \/ \E loc \in Locations : get_mut(1, loc)
    \/ \E loc \in Locations : get(1, loc)
    \/ Cell_handler_drop

ObjNext ==
    \/ \E h \in HandleIds : obj_clone(h)
    \/ \E h \in HandleIds : obj_drop(h)
    \/ \E h \in HandleIds : downgrade(h)
    \/ \E w \in HandleIds : weak_clone(w)
    \/ \E w \in HandleIds : weak_drop(w)
    \/ \E w \in HandleIds : exists(w)
    \/ \E w \in HandleIds : try_upgrade(w)
    \/ \E w \in HandleIds : upgrade(w)
    \/ \E h \in HandleIds, loc \in Locations : get(h, loc)
    \/ \E h \in HandleIds, loc \in Locations : get_mut(h, loc)
    \/ \E i \in 1..MaxGuards : guard_drop(i)


----------------------------------------------------------------------------
(* Specifications *)

\* silica::Gui
Init ==
    GuiInit /\ QuadInit(FALSE) /\ ObjInit /\ ControlInit /\ InputInit
Next == GuiNext
Spec == Init /\ [][Next]_vars

\* silica::Gui, trees built parent before child, longer runs
InitPointer ==
    GuiInit /\ QuadInit(FALSE) /\ ObjInit /\ ControlInit /\ InputInit
NextPointer == PointerNext
SpecPointer == InitPointer /\ [][NextPointer]_vars

\* silica::Gui, trees built and painted
InitPaint ==
    GuiInit /\ QuadInit(FALSE) /\ ObjInit /\ ControlInit /\ InputInit
NextPaint == PaintNext
SpecPaint == InitPaint /\ [][NextPaint]_vars

\* GuiRenderer::draw_border over the edge widths of a style
InitBorder ==
    GuiInit /\ QuadInit(FALSE) /\ ObjInit /\ ControlInit /\ InputInit
NextBorder == BorderNext
SpecBorder == InitBorder /\ [][NextBorder]_vars

\* silica::Gui and the InputSystem, lookups that find nothing
InitMissing ==
    GuiInit /\ QuadInit(FALSE) /\ ObjInit /\ ControlInit /\ InputInit
NextMissing == MissingNext
SpecMissing == InitMissing /\ [][NextMissing]_vars

\* silica::Gui, every tree the editing calls can build
InitTree ==
    GuiInit /\ QuadInit(FALSE) /\ ObjInit /\ ControlInit /\ InputInit
NextTree == TreeNext
SpecTree == InitTree /\ [][NextTree]_vars

\* the cell of a widget during deliveries and paints
InitCell ==
    GuiInit /\ QuadInit(FALSE) /\ ObjInit /\ ControlInit /\ InputInit
NextCell == CellNext
SpecCell == InitCell /\ [][NextCell]_vars

\* the Button and Checkbox controls under any sequence of deliveries
InitControl ==
    GuiInit /\ QuadInit(FALSE) /\ ObjInit /\ ControlInitAny /\ InputInit
NextControl == ControlNext
SpecControl == InitControl /\ [][NextControl]_vars

\* silica::Gui, the hit test on the edges of the boxes
InitHit ==
    GuiInit /\ QuadInit(FALSE) /\ ObjInit /\ ControlInit /\ InputInit
NextHit == HitNext
SpecHit == InitHit /\ [][NextHit]_vars

\* QuadRenderer, batching of quads and text over frames
InitQuad ==
    GuiInit /\ QuadInit(FALSE) /\ ObjInit /\ ControlInit /\ InputInit
NextQuad == QuadNext
SpecQuad == InitQuad /\ [][NextQuad]_vars

\* QuadRenderer, culling and snapping of one quad
InitCull ==
    /\ GuiInit /\ ObjInit /\ ControlInit /\ InputInit
    /\ \E pp \in BOOLEAN : QuadInit(pp)
NextCull == CullNext
SpecCull == InitCull /\ [][NextCull]_vars

\* Obj and WeakObj handles of one value
InitObj ==
    GuiInit /\ QuadInit(FALSE) /\ ObjInit /\ ControlInit /\ InputInit
NextObj == ObjNext
SpecObj == InitObj /\ [][NextObj]_vars


----------------------------------------------------------------------------
(* Claims on silica::Gui *)

\* the point of the last handle_pointer_motion call
LastPoint == <<last.a, last.b>>
AfterMotion == status = "ok" /\ last.op = "handle_pointer_motion"

\* C1: whatever create_node, add_child, remove_child and destroy_node calls
\* came before, the hit test run from the root gives nothing (None, or it
\* does not return) or a live node linked from the root by child links; it
\* never gives a destroyed node or a detached one.
C1_HitTestStaysInTree ==
    status = "ok" =>
        \A p \in Points :
            LET r == HitTest(p)
            IN \/ r \in {NoNode, Panic, Overflow}
               \/ r \in Reachable /\ r \notin destroyed

\* C1 witness: a pointer motion highlighted a node after another node had
\* been destroyed
C1_Witness ==
    /\ AfterMotion
    /\ destroyed # {}
    /\ highlight # NoNode
    /\ highlight = HitTest(LastPoint)

\* C2: between top-level calls a highlighted node is linked from the root
\* and hit-testable (its Visual exists and has a background).
C2_HighlightInTreeAndHitTestable ==
    (status = "ok" /\ highlight # NoNode) =>
        /\ highlight \in Reachable
        /\ can_highlight(highlight)

\* The search order of the hit test, written out for the whole tree: every
\* occurrence of a node under the root, children in reverse insertion
\* order first, then the node itself.  An occurrence carries the point in
\* the node's local coordinates and whether all of its ancestors contain
\* the point.  (Used on trees without cycles and removed ids.)
RECURSIVE SearchOrder(_, _, _, _)
RECURSIVE SearchOrderChildren(_, _, _, _, _)
SearchOrderChildren(node, i, lx, ly, open) ==
    IF i = 0 THEN <<>>
    ELSE SearchOrder(children[node][i], lx, ly, open)
         \o SearchOrderChildren(node, i - 1, lx, ly, open)
SearchOrder(node, x, y, open) ==
    LET lx == x - box[node].x
        ly == y - box[node].y
        in == open /\ Inside(box[node], lx, ly)
    IN SearchOrderChildren(node, Len(children[node]), lx, ly, in)
       \o <<[node |-> node, contains |-> in]>>

\* the first hit-testable node of the search order whose bounds (and those
\* of its ancestors) contain the point, NoNode when there is none
FirstHit(p) ==
    LET order == SearchOrder(Root, p[1], p[2], TRUE)
        ok(i) == order[i].contains /\ can_highlight(order[i].node)
    IN IF \E i \in 1..Len(order) : ok(i)
       THEN order[CHOOSE i \in 1..Len(order) :
                      ok(i) /\ \A j \in 1..(i - 1) : ~ok(j)].node
       ELSE NoNode

\* C3: after handle_pointer_motion(x, y) has returned, the stored highlight
\* is none exactly when no hit-testable node contains the point, and
\* otherwise it is the first hit-testable node of the search order whose
\* bounds contain the point.
C3_HighlightIsFirstHit ==
    (AfterMotion /\ ~HasCycle /\ ~HasDangling) =>
        highlight = FirstHit(LastPoint)

\* the scene of C4: root 800x600 with exactly the children a then b, both
\* leaves with a background, a at (0,0,100,100) and b at (50,50,100,100)
Scene(a, b) ==
    /\ a # b
    /\ Live(Root) /\ Live(a) /\ Live(b)
    /\ children[Root] = <<a, b>>
    /\ children[a] = <<>> /\ children[b] = <<>>
    /\ box[Root] = ScreenBox /\ box[a] = BoxA /\ box[b] = BoxB
    /\ can_highlight(a) /\ can_highlight(b)

\* C4: with the scene in place, handle_pointer_motion highlights b (added
\* later) at (75,75) inside the overlap, a at (10,10) inside a only, and
\* nothing at (700,700) outside the root.
C4_OverlappingSiblings ==
    [][\A a, b \in NodeIds \ {Root} :
          (Scene(a, b) /\ status' = "ok") =>
              /\ handle_pointer_motion(<<75, 75>>) => highlight' = b
              /\ handle_pointer_motion(<<10, 10>>) => highlight' = a
              /\ handle_pointer_motion(<<700, 700>>) => highlight' = NoNode]_vars

\* C4 witness: the pointer went to (75,75) in the scene and b is highlighted
C4_Witness ==
    /\ AfterMotion
    /\ LastPoint = <<75, 75>>
    /\ \E a, b \in NodeIds \ {Root} : Scene(a, b) /\ highlight = b

\* the state of the Gui proper (everything but the record of the last call)
guiState == <<layoutNodes, children, parents, box, nodes, widgets, highlight,
              pointer_down, nextId, status, destroyed>>

\* C5: handle_pointer_button(v) from a state whose flag differs from v sets
\* the flag and delivers once to the highlighted node's control (when it has
\* one); handle_pointer_button(v) called again right after delivers nothing
\* and changes no state.
C5_ButtonTwiceOneTransition ==
    [][\A v \in BOOLEAN :
          handle_pointer_button(v) =>
              /\ pointer_down # v =>
                    /\ pointer_down' = v
                    /\ delivered' = IF highlight # NoNode
                                        /\ widgets[highlight] # Absent
                                     THEN <<[node |-> highlight,
                                             state |-> IF v THEN "Press"
                                                       ELSE "Over"]>>
                                     ELSE <<>>
              /\ (last.op = "handle_pointer_button"
                  /\ last.a = (IF v THEN 1 ELSE 0)) =>
                    /\ delivered' = <<>>
                    /\ UNCHANGED guiState]_vars

\* C5 witness: a second handle_pointer_button(true) has returned with a
\* control under the pointer and delivered nothing
C5_Witness ==
    /\ status = "ok"
    /\ last.op = "handle_pointer_button" /\ last.a = 1
    /\ pointer_down
    /\ highlight # NoNode /\ widgets[highlight] # Absent
    /\ delivered = <<>>


----------------------------------------------------------------------------
(* Claims about pointer dispatch and tree edits of silica::Gui *)

\* node has a control in the widget registry
HasControl(n) == n # NoNode /\ widgets[n] # Absent
\* one delivery, as recorded in delivered
Delivery(n, state) == [node |-> n, state |-> state]

\* C11: a handle_pointer_motion whose hit result differs from the stored
\* highlight delivers None to the control of the old highlight (if it has
\* one), then Press (pointer_down set) or Over to the control of the hit
\* node (if it has one), nothing else and each at most once, and stores the
\* hit result; the deliveries are made against the old stored highlight.
C11_MotionDeliveryOrder ==
    [][\A p \in Points :
          (handle_pointer_motion(p) /\ status' = "ok"
           /\ HitTest(p) # highlight) =>
              /\ delivered' =
                    (IF HasControl(highlight)
                     THEN <<Delivery(highlight, "None")>> ELSE <<>>)
                    \o (IF HasControl(HitTest(p))
                        THEN <<Delivery(HitTest(p),
                                        IF pointer_down THEN "Press"
                                        ELSE "Over")>>
                        ELSE <<>>)
              /\ highlight' = HitTest(p)
              /\ pointer_down' = pointer_down]_vars

\* the pointer moved, button down, from one control to another: None went to
\* the old one, then Press to the new one
C11_Witness ==
    /\ AfterMotion
    /\ Len(delivered) = 2
    /\ delivered[1].state = "None"
    /\ delivered[2].state = "Press"
    /\ delivered[1].node # delivered[2].node
    /\ highlight = delivered[2].node

\* C12: handle_pointer_button(pressed) with pressed different from the
\* stored flag delivers Press (pressed) or Over (not pressed) to the control
\* of the stored highlight if it has one, stores pressed as the flag, and
\* leaves the stored highlight as it was.
C12_ButtonDelivery ==
    [][\A v \in BOOLEAN :
          (handle_pointer_button(v) /\ pointer_down # v) =>
              /\ delivered' =
                    IF HasControl(highlight)
                    THEN <<Delivery(highlight, IF v THEN "Press" ELSE "Over")>>
                    ELSE <<>>
              /\ pointer_down' = v
              /\ highlight' = highlight
              /\ status' = "ok"]_vars

\* the button went down over a control, which was delivered Press
C12_Witness ==
    /\ status = "ok"
    /\ last.op = "handle_pointer_button" /\ last.a = 1
    /\ pointer_down
    /\ HasControl(highlight)
    /\ delivered = <<Delivery(highlight, "Press")>>

\* C13: handle_pointer_motion and handle_pointer_button deliver a pointer
\* state only to controls of nodes reachable from the root at the moment of
\* the delivery (neither call edits the tree, so that is the tree after the
\* call), also after an ancestor of the highlighted node was removed or
\* destroyed.
C13_NoDeliveryOffTree ==
    (status = "ok"
     /\ last.op \in {"handle_pointer_motion", "handle_pointer_button"}) =>
        \A i \in 1..Len(delivered) : delivered[i].node \in Reachable

\* C14: destroy_node(n) on a live node n, when it returns, leaves n without
\* layout entry, node-registry entry and widget-registry entry, and the
\* stored highlight is not n; the pointer_down flag and the entries of all
\* other nodes are as before.
C14_DestroyNodeTeardown ==
    [][\A n \in NodeIds \ {Root} :
          (destroy_node(n) /\ Live(n) /\ status' = "ok") =>
              /\ n \notin layoutNodes'
              /\ ~nodes'[n].entry
              /\ widgets'[n] = Absent
              /\ highlight' # n
              /\ highlight' \in {highlight, NoNode}
              /\ pointer_down' = pointer_down
              /\ \A m \in NodeIds \ {n} :
                    /\ nodes'[m] = nodes[m]
                    /\ widgets'[m] = widgets[m]
                    /\ (m \in layoutNodes') <=> (m \in layoutNodes)]_vars

\* a node was destroyed while the button was down and another control lives
C14_Witness ==
    /\ status = "ok"
    /\ last.op = "destroy_node"
    /\ last.a \in destroyed
    /\ last.a \notin layoutNodes
    /\ pointer_down
    /\ highlight = NoNode
    /\ \E m \in NodeIds \ {last.a} : Live(m) /\ widgets[m] # Absent

\* C15: remove_child(p, c), when it returns, clears the stored highlight if
\* it was c and leaves it unchanged otherwise; c is detached from p but keeps
\* its layout entry and its node-registry and widget-registry entries; the
\* call delivers no pointer state.
C15_RemoveChildDetaches ==
    [][\A par \in NodeIds, c \in NodeIds \ {Root} :
          (remove_child(par, c) /\ status' = "ok") =>
              /\ highlight' = (IF highlight = c THEN NoNode ELSE highlight)
              /\ c \in layoutNodes'
              /\ layoutNodes' = layoutNodes
              /\ nodes' = nodes
              /\ widgets' = widgets
              /\ delivered' = <<>>
              /\ Len(children'[par]) = Len(children[par]) - 1
              /\ parents'[c] = NoParent]_vars

\* a child was removed while another node stayed highlighted
C15_Witness ==
    /\ status = "ok"
    /\ last.op = "remove_child"
    /\ Live(last.a) /\ nodes[last.a].entry
    /\ parents[last.a] = NoParent
    /\ highlight # NoNode
    /\ highlight # last.a

\* a NodeId that was destroyed or never created
Stale(n) == n # Root /\ n \notin layoutNodes

\* C16: destroy_node, add_child, remove_child, set_style and set_visual
\* given a NodeId that was destroyed or never created panic, with the node
\* registry, the widget registry and the pointer state as before the call;
\* none of them returns.
C16_StaleNodeIdPanics ==
    [][\A n \in NodeIds \ {Root} :
          (Stale(n)
           /\ \/ destroy_node(n)
              \/ set_style(n)
              \/ \E v \in VisualArgs : set_visual(n, v)
              \/ \E m \in NodeIds : add_child(n, m) \/ add_child(m, n)
              \/ \E m \in NodeIds : remove_child(n, m) \/ remove_child(m, n)) =>
              /\ status' = "panic"
              /\ nodes' = nodes
              /\ widgets' = widgets
              /\ layoutNodes' = layoutNodes
              /\ highlight' = highlight
              /\ pointer_down' = pointer_down]_vars

\* set_style was given the id of a destroyed node, every id being handed out
C16_Witness ==
    /\ status = "panic"
    /\ last.op = "set_style"
    /\ nextId > MaxNodes
    /\ destroyed # {}
    /\ \E m \in NodeIds \ {Root} : Live(m)

----------------------------------------------------------------------------
(* Claims about gristmill::two::QuadRenderer *)

\* the calls of this frame that emitted something: accepted quads and texts
Emitting == SelectSeq(frame.calls, LAMBDA c : c.accepted)
\* what decides whether two neighbouring calls share a range
BatchKey(c) == IF c.kind = "text" THEN "Text" ELSE c.texture
\* positions in Emitting where a run of equal keys starts
RunStarts ==
    {i \in 1..Len(Emitting) :
        i = 1 \/ BatchKey(Emitting[i]) # BatchKey(Emitting[i - 1])}
\* the k-th run start, counting from 1
RunStart(k) ==
    CHOOSE i \in RunStarts : Cardinality({j \in RunStarts : j < i}) = k - 1
\* one past the last position of the run that starts at i
RunEnd(i) ==
    IF \E j \in RunStarts : j > i
    THEN CHOOSE j \in RunStarts :
            j > i /\ \A m \in RunStarts : m > i => j <= m
    ELSE Len(Emitting) + 1
\* accepted quads among the first n emitting calls
QuadsBefore(n) ==
    Cardinality({j \in 1..(n - 1) : Emitting[j].kind = "quad"})
\* kind, texture and bounds of a range
RangeShape(r) == <<r.kind, r.texture, r.start, r.end>>
\* the range the run starting at i stands for
RunShape(i) ==
    IF Emitting[i].kind = "text" THEN <<"Text", "", 0, 0>>
    ELSE <<"Instances", Emitting[i].texture, QuadsBefore(i),
           QuadsBefore(RunEnd(i))>>
\* the textures of the calls of this frame, "" for a text
CallTextures == [i \in 1..Len(frame.calls) |-> frame.calls[i].texture]
AllAccepted == \A i \in 1..Len(frame.calls) : frame.calls[i].accepted

\* C6: within a frame the range list is the list of maximal runs of
\* emitting calls with one key (the texture of a quad, or being a text): an
\* accepted quad extends the last range iff that range is Instances of its
\* texture, and starts a new range otherwise.  Textures [A,A,B,A] give
\* Instances(A,[0,2)), Instances(B,[2,3)), Instances(A,[3,4)); two quads of
\* one texture with a text between them are three ranges.
C6_BatchingRule ==
    QuadAlive =>
        /\ Len(instance_ranges) = Cardinality(RunStarts)
        /\ \A k \in 1..Len(instance_ranges) :
              RangeShape(instance_ranges[k]) = RunShape(RunStart(k))
        /\ (AllAccepted /\ CallTextures = <<"A", "A", "B", "A">>) =>
              instance_ranges = <<Instances("A", 0, 2), Instances("B", 2, 3),
                                  Instances("A", 3, 4)>>
        /\ (AllAccepted /\ CallTextures = <<"A", "", "A">>) =>
              /\ Len(instance_ranges) = 3
              /\ RangeShape(instance_ranges[1]) = RangeShape(Instances("A", 0, 1))
              /\ instance_ranges[2].kind = "Text"
              /\ RangeShape(instance_ranges[3]) = RangeShape(Instances("A", 1, 2))

\* four accepted quads of textures A, A, B, A are queued, in the second frame
C6_Witness ==
    /\ frame.frames = 1
    /\ AllAccepted
    /\ CallTextures = <<"A", "A", "B", "A">>
    /\ Len(instance_ranges) = 3

\* the scaled, snapped and scrolled rectangle of q has no point in
\* [0, screen width) x [0, screen height); both are half-open
NoPointInViewport(q) ==
    LET r == Scrolled(q)
        left == IF RectX(r) > 0 THEN RectX(r) ELSE 0
        right == IF RectX(r) + RectW(r) < screen_size[1]
                 THEN RectX(r) + RectW(r) ELSE screen_size[1]
        top == IF RectY(r) > 0 THEN RectY(r) ELSE 0
        bottom == IF RectY(r) + RectH(r) < screen_size[2]
                  THEN RectY(r) + RectH(r) ELSE screen_size[2]
    IN left >= right \/ top >= bottom

\* C7: queue() of a quad whose scaled, snapped and scrolled rectangle has no
\* point in the half-open viewport leaves the length of the instance
\* accumulator unchanged, also when its far edge lies exactly on 0
C7_OutsideViewportNotQueued ==
    [][\A q \in CullQuads :
          (queue(q) /\ NoPointInViewport(q)) =>
              Len(instances') = Len(instances)]_vars

----------------------------------------------------------------------------
(* Claims about grist::Obj and grist::WeakObj *)

\* the caller holds an exclusive guard
ExclusiveHeld == \E i \in 1..Len(guards) : guards[i].kind = "write"
\* the guard a successful call hands out is the last one in guards'
Granted(kind, loc) ==
    /\ Len(guards') = Len(guards) + 1
    /\ guards'[Len(guards')].kind = kind
    /\ guards'[Len(guards')].loc = loc
    /\ \A i \in 1..Len(guards) : guards'[i] = guards[i]

\* C8: get and get_mut never wait.  get hands out a shared guard when no
\* exclusive guard is held, also next to other shared guards, and panics
\* when one is held; get_mut hands out an exclusive guard when no guard is
\* held and panics otherwise; no call is left blocked.
C8_GetNeverWaits ==
    [][/\ ocall'.status # "blocked"
       /\ \A h \in HandleIds, loc \in Locations :
             /\ get(h, loc) =>
                   /\ ocall'.outcome = (IF ExclusiveHeld THEN "panic"
                                        ELSE "guard")
                   /\ ocall'.outcome = "guard" => Granted("read", loc)
                   /\ ocall'.outcome = "panic" => guards' = guards
             /\ get_mut(h, loc) =>
                   /\ ocall'.outcome = (IF guards # <<>> THEN "panic"
                                        ELSE "guard")
                   /\ ocall'.outcome = "guard" => Granted("write", loc)
                   /\ ocall'.outcome = "panic" => guards' = guards]_vars

\* get has handed out a second shared guard next to one still held
C8_Witness ==
    /\ ocall.op = "get"
    /\ ocall.outcome = "guard"
    /\ Len(guards) = 2
    /\ \A i \in 1..Len(guards) : guards[i].kind = "read"

\* a held guard conflicts with the call op
Conflicts(g, op) == op = "get_mut" \/ g.kind = "write"

\* C9: when get or get_mut panics over a conflicting acquisition, the
\* location in the message is the call site of an acquisition whose guard is
\* still held and conflicts with the call
C9_PanicNamesHeldConflict ==
    (ocall.outcome = "panic" /\ ocall.op \in {"get", "get_mut"}) =>
        \E i \in 1..Len(guards) :
            /\ guards[i].loc = ocall.reported
            /\ Conflicts(guards[i], ocall.op)

\* C10: the value is alive exactly while an Obj exists, whatever WeakObj
\* handles exist; exists answers whether an Obj exists; try_upgrade hands
\* out an Obj exactly when one exists and none otherwise; upgrade panics
\* exactly when none exists
C10_WeakFollowsStrong ==
    [][/\ (arc'.value = "alive") <=> (objs' # {})
       /\ \A w \in HandleIds :
             /\ exists(w) =>
                   ocall'.outcome = (IF objs # {} THEN "true" ELSE "false")
             /\ try_upgrade(w) =>
                   /\ ocall'.outcome = (IF objs # {} THEN "some" ELSE "none")
                   /\ ocall'.outcome = "some" =>
                         \E h \in objs' \ objs : objs' = objs \cup {h}
                   /\ ocall'.outcome = "none" => objs' = {}
             /\ upgrade(w) =>
                   /\ ocall'.outcome = (IF objs # {} THEN "obj" ELSE "panic")
                   /\ ocall'.outcome = "obj" =>
                         \E h \in objs' \ objs : objs' = objs \cup {h}
                   /\ ocall'.outcome = "panic" => objs' = {}]_vars

\* exists answers false on a WeakObj that outlived every Obj
C10_Witness ==
    /\ ocall.op = "exists"
    /\ ocall.outcome = "false"
    /\ weaks # {}
    /\ objs = {}
    /\ arc.value = "dropped"

----------------------------------------------------------------------------
(* Claims about QuadRenderer::render *)

\* the last call was render: nothing is queued since
AfterRender == frame.frames > 0 /\ frame.calls = <<>>

RECURSIVE Pow2(_)
Pow2(k) == IF k = 0 THEN 1 ELSE 2 * Pow2(k - 1)

\* glyphs of the sections queued for the frame
Needed == Cardinality(GlyphsQueued(brush.queue))

\* C17: render ends whatever text is queued: it reallocates the atlas once
\* per TextureTooSmall at the suggested (doubled) size, as often as needed and
\* no more, leaves on a successful process_queued, and the atlas being too
\* small is never an error or a panic of render
C17_ResizeLoopEnds ==
    [][render =>
          /\ frame'.status = "ok"
          /\ glyph_texture' = glyph_texture * Pow2(frame'.resizes)
          /\ brush'.capacity = glyph_texture'
          /\ brush'.queue = <<>>
          /\ brush'.last_draw = brush.queue
          /\ IF brush.queue = brush.last_draw
             THEN frame'.resizes = 0
             ELSE /\ Needed <= glyph_texture'
                  /\ GlyphsQueued(brush.queue) \subseteq brush'.cache
                  /\ frame'.resizes > 0 =>
                        Needed > glyph_texture * Pow2(frame'.resizes - 1)
    ]_vars

\* a render that had to double the atlas twice
C17_Witness ==
    /\ AfterRender
    /\ frame.status = "ok"
    /\ frame.resizes = 2
    /\ glyph_texture = 4 * AtlasInit

\* C18: a frame that queues only glyphs the atlas already holds reallocates
\* nothing, also right after a frame that grew the atlas: the atlas size and
\* the rasterized glyphs outlive the per-frame reset of render
C18_GrownAtlasPersists ==
    [][/\ render
       /\ GlyphsQueued(brush.queue) \subseteq brush.cache
       => /\ frame'.resizes = 0
          /\ glyph_texture' = glyph_texture
          /\ brush'.capacity = brush.capacity
          /\ brush.cache \subseteq brush'.cache
    ]_vars

\* the second frame draws new text out of glyphs the first frame rasterized
\* while growing the atlas, without a reallocation
C18_Witness ==
    /\ AfterRender
    /\ frame.frames = 2
    /\ frame.resizes = 0
    /\ glyph_texture = 4 * AtlasInit
    /\ brush.last_draw = <<[text |-> "cd", z |-> 0]>>
    /\ brush.cache = {"a", "b", "c", "d"}

\* accepted quads among the calls of the frame
RECURSIVE AcceptedQuads(_)
AcceptedQuads(calls) ==
    IF calls = <<>> THEN 0
    ELSE (IF Head(calls).kind = "quad" /\ Head(calls).accepted THEN 1 ELSE 0)
         + AcceptedQuads(Tail(calls))

\* C19: after every render the instance accumulator and the range list are
\* empty and the glyph layer counter is layer 0, combining; so in a later
\* frame the instances and ranges count from the start of that frame
C19_RenderResets ==
    /\ AfterRender =>
          /\ instances = <<>>
          /\ instance_ranges = <<>>
          /\ glyph_layer = [layer |-> 0, combine |-> TRUE]
    /\ frame.frames > 0 =>
          /\ Len(instances) = AcceptedQuads(frame.calls)
          /\ instance_ranges # <<>> =>
                IF instance_ranges[1].kind = "Text"
                THEN instance_ranges[1].layer = 0
                ELSE instance_ranges[1].start = 0

\* render has drawn a quad and then a text of layer 1, and has reset
C19_Witness ==
    /\ AfterRender
    /\ frame.status = "ok"
    /\ Len(frame.draws) = 2
    /\ frame.draws[1].mask = "white"
    /\ frame.draws[2].mask = "atlas"
    /\ glyph_layer.layer = 0
    /\ Len(glyph_instances) = 2

\* C20: render makes one draw call per entry of the range list, in the order
\* of the list: an Instances range binds (its texture, white pixel) and draws
\* the quads of the range, a Text range binds (white pixel, glyph atlas) and
\* draws the glyph instances of its layer
C20_OneDrawPerRange ==
    [][render =>
          /\ Len(frame'.draws) = Len(instance_ranges)
          /\ \A i \in 1..Len(instance_ranges) :
                LET r == instance_ranges[i]
                    d == frame'.draws[i]
                IN IF r.kind = "Instances"
                   THEN /\ d.tex = r.texture
                        /\ d.mask = "white"
                        /\ d.items = [k \in 1..(r.end - r.start) |->
                                         instances[r.start + k]]
                        /\ d.count = r.end - r.start
                   ELSE /\ d.tex = "white"
                        /\ d.mask = "atlas"
                        /\ d.items = LayerGlyphs(brush.queue, r.layer)
                        /\ d.count = Len(d.items)
    ]_vars

\* a quad of A, a text of two glyphs, a quad of B: three draws in that order
C20_Witness ==
    /\ AfterRender
    /\ frame.status = "ok"
    /\ Len(frame.draws) = 3
    /\ frame.draws[1].tex = "A"
    /\ frame.draws[2].mask = "atlas"
    /\ frame.draws[2].count = 2
    /\ frame.draws[3].tex = "B"
    /\ frame.draws[3].count = 1

----------------------------------------------------------------------------
(* Claims about the glyph layers of QuadRenderer *)

\* a queue_text call is taken
TextStep == \E t \in Texts : queue_text(t)

\* the last call of the frame so far, if any
HasPrev == frame.calls # <<>>
Prev == frame.calls[Len(frame.calls)]
\* the last call of the frame so far that was not discarded, if any
HasPrevEmitting == Emitting # <<>>
PrevEmitting == Emitting[Len(Emitting)]

\* what queue_text does to the range list
TextRangeRule ==
    IF instance_ranges # <<>>
       /\ instance_ranges[Len(instance_ranges)].kind = "Text"
    THEN instance_ranges' = instance_ranges
    ELSE instance_ranges' =
            Append(instance_ranges,
                   [kind |-> "Text", texture |-> "", start |-> 0, end |-> 0,
                    layer |-> glyph_layer'.layer])

\* C21 as stated: queue_text keeps the layer when the call before it was a
\* text call and takes a new layer when the call before it was a quad call,
\* discarded or not; it pushes a Text range unless the last range is Text
C21_LayerAfterAnyQuad ==
    [][TextStep =>
          /\ HasPrev /\ Prev.kind = "text" =>
                glyph_layer'.layer = glyph_layer.layer
          /\ HasPrev /\ Prev.kind = "quad" =>
                glyph_layer'.layer = glyph_layer.layer + 1
          /\ TextRangeRule
    ]_vars

\* C21 amended: queue_text keeps the layer when the last call of the frame
\* that was not discarded was a text call (or there is none), and takes a new
\* layer when it was an accepted quad call; a discarded quad call changes
\* nothing.  The call is tagged with the layer and a Text range is pushed
\* unless the last range is Text
C21_LayerAfterAcceptedQuad ==
    [][TextStep =>
          /\ glyph_layer'.layer =
                IF HasPrevEmitting /\ PrevEmitting.kind = "quad"
                THEN glyph_layer.layer + 1 ELSE glyph_layer.layer
          /\ glyph_layer'.combine
          /\ brush'.queue[Len(brush'.queue)].z = glyph_layer'.layer
          /\ TextRangeRule
    ]_vars

\* a text, a discarded quad and a text share layer 0 and one Text range, and
\* a text after an accepted quad has taken layer 1
C21_Witness ==
    /\ Len(frame.calls) = 5
    /\ frame.calls[1].kind = "text"
    /\ frame.calls[2].kind = "quad" /\ ~frame.calls[2].accepted
    /\ frame.calls[3].kind = "text" /\ frame.calls[3].z = 0
    /\ frame.calls[4].kind = "quad" /\ frame.calls[4].accepted
    /\ frame.calls[5].kind = "text" /\ frame.calls[5].z = 1
    /\ Len(instance_ranges) = 3

----------------------------------------------------------------------------
(* Claims about Gui::render and the hit test *)

\* Gui::render was the last call and it returned
Rendered == last.op = "render" /\ status = "ok"

\* the nodes render_node entered, in order
RECURSIVE NodesOf(_)
NodesOf(cmds) ==
    IF cmds = <<>> THEN <<>> ELSE <<Head(cmds).node>> \o NodesOf(Tail(cmds))
Visits == NodesOf(SelectSeq(painted, LAMBDA c : c.cmd = "save"))

\* depth-first pre-order over the child lists, each node once: the nodes to
\* enter are kept on a stack, a node entered before is skipped
RECURSIVE PreOrder(_, _)
PreOrder(stack, seen) ==
    IF stack = <<>> THEN <<>>
    ELSE IF Head(stack) \in seen THEN PreOrder(Tail(stack), seen)
    ELSE <<Head(stack)>>
         \o PreOrder(children[Head(stack)] \o Tail(stack),
                     seen \cup {Head(stack)})

\* place of a renderer call among the calls made for one node
Rank(cmd) ==
    CASE cmd = "save" -> 0
      [] cmd = "translate" -> 1
      [] cmd = "background" -> 2
      [] cmd = "border" -> 3
      [] cmd = "foreground" -> 4
      [] OTHER -> 5
PaintCmds == {"background", "border", "foreground"}

\* nodes below n in the tree
Descendants(n) == ReachFrom({n}, {}) \ {n}

\* the paint calls of a node are those of its Visual, in the order
\* background, border, foreground
OwnPaintInOrder ==
    \A i \in 1..Len(painted) :
        LET c == painted[i]
        IN /\ c.cmd \in PaintCmds =>
                /\ nodes[c.node].entry /\ nodes[c.node].visual.some
                /\ c.cmd = "background" => nodes[c.node].visual.background
                /\ c.cmd = "border" => nodes[c.node].visual.border
                /\ c.cmd = "foreground" =>
                      /\ nodes[c.node].visual.foreground
                      /\ widgets[c.node] # Absent
           /\ c.cmd = "save" =>
                /\ can_highlight(c.node) =>
                      /\ i + 2 <= Len(painted)
                      /\ painted[i + 2] = Cmd(c.node, "background", 0, 0)
                /\ \A j \in (i + 1)..Len(painted) :
                      /\ painted[j].node = c.node
                      /\ \A k \in (i + 1)..(j - 1) : painted[k].cmd # "restore"
                      /\ j > i + 1
                      => Rank(painted[j - 1].cmd) < Rank(painted[j].cmd)
                         \/ painted[j - 1].node # c.node

\* the paint calls of a node come before every call made for a node below it
OwnBeforeDescendants ==
    \A i, j \in 1..Len(painted) :
        /\ painted[i].cmd \in PaintCmds
        /\ painted[j].node \in Descendants(painted[i].node)
        => i < j

\* C22: Gui::render enters the nodes reachable from the root in depth-first
\* pre-order, children in insertion order, each reachable node exactly once;
\* a node with a Visual is painted background, border, foreground (the
\* foreground only with a widget), before anything of its descendants
C22_PaintPreOrderOnce ==
    Rendered =>
        /\ Visits = PreOrder(<<Root>>, {})
        /\ OwnPaintInOrder
        /\ OwnBeforeDescendants

\* the nodes hit_highlightable_node would consider when no point is
\* rejected by a box and no hit ends the search: for each node its children
\* from the last to the first, then the node itself
RECURSIVE Candidates(_, _)
RECURSIVE CandidatesOfChildren(_, _, _)
CandidatesOfChildren(node, i, path) ==
    IF i = 0 THEN <<>>
    ELSE Candidates(children[node][i], path)
         \o CandidatesOfChildren(node, i - 1, path)
Candidates(node, path) ==
    IF ~Live(node) \/ node \in path THEN <<>>
    ELSE CandidatesOfChildren(node, Len(children[node]), path \cup {node})
         \o <<node>>

Reverse(seq) == [i \in 1..Len(seq) |-> seq[Len(seq) + 1 - i]]

\* the positions in the walk of render at which the box of the node entered
\* there, and of every node entered above it, holds the point p
RECURSIVE HoldsAt(_, _, _, _, _)
RECURSIVE HoldsAtChildren(_, _, _, _, _, _)
HoldsAtChildren(node, i, above, lx, ly, k) ==
    IF i > Len(children[node]) THEN [hit |-> {}, next |-> k]
    ELSE LET r == HoldsAt(children[node][i], above, lx, ly, k)
             rest == HoldsAtChildren(node, i + 1, above, lx, ly, r.next)
         IN [hit |-> r.hit \cup rest.hit, next |-> rest.next]
\* k is the position of the node in Visits; lx, ly is the point in the space
\* of the parent; above says that every box above the node holds the point
HoldsAt(node, above, lx, ly, k) ==
    LET x == lx - box[node].x
        y == ly - box[node].y
        here == above /\ Inside(box[node], x, y)
        kids == HoldsAtChildren(node, 1, here, x, y, k + 1)
    IN [hit |-> (IF here THEN {k} ELSE {}) \cup kids.hit, next |-> kids.next]

\* C23: the order in which the hit test considers the nodes, boxes ignored,
\* is the reverse of the order in which Gui::render enters and paints them;
\* so the node the hit test returns for a point is, among the hit-testable
\* nodes whose box and whose ancestors' boxes hold the point, the one
\* painted last
C23_HitOrderReversesPaintOrder ==
    Rendered =>
        /\ Reverse(Candidates(Root, {})) = Visits
        /\ \A p \in Points :
              LET held == {k \in HoldsAt(Root, TRUE, p[1], p[2], 1).hit :
                              can_highlight(Visits[k])}
              IN IF held = {} THEN HitTest(p) = NoNode
                 ELSE HitTest(p) =
                         Visits[CHOOSE k \in held : \A j \in held : j <= k]

\* two overlapping hit-testable siblings were painted: the point in the
\* overlap hits the one painted last
C23_Witness ==
    /\ Rendered
    /\ Visits = <<Root, 1, 2>>
    /\ can_highlight(1) /\ can_highlight(2)
    /\ HitTest(<<75, 75>>) = 2
    /\ HitTest(<<10, 10>>) = 1

\* C24: remove_child or destroy_node of a proper ancestor of the highlighted
\* node leaves the stored highlight as it is; the two calls change the
\* highlight only when the NodeId they are given is the highlighted one
C24_AncestorRemovalKeepsHighlight ==
    [][\A n \in NodeIds \ {Root} :
          ((destroy_node(n) \/ \E par \in NodeIds : remove_child(par, n))
           /\ status' = "ok") =>
              /\ highlight \in Descendants(n) => highlight' = highlight
              /\ highlight' # highlight => highlight = n /\ highlight' = NoNode
    ]_vars

\* the parent of the highlighted node was taken out of the tree and the
\* highlight stayed
C24_Witness ==
    /\ status = "ok"
    /\ last.op = "remove_child"
    /\ highlight # NoNode
    /\ highlight \in Descendants(last.a)
    /\ highlight \notin Reachable

\* C25: whatever create_node, create_widget and destroy_node calls were made
\* (and whatever other calls between them), a NodeId other than the root has
\* an entry in Gui.nodes exactly when it has a layout entry, and every key of
\* Gui.widgets is a key of Gui.nodes
C25_RegistryMatchesLayout ==
    /\ \A n \in NodeIds \ {Root} : nodes[n].entry <=> Live(n)
    /\ \A n \in NodeIds : widgets[n] # Absent => nodes[n].entry
    /\ ~nodes[Root].entry

\* a node with a widget was destroyed while another one lives on
C25_Witness ==
    /\ status = "ok"
    /\ last.op = "destroy_node"
    /\ last.a \in destroyed
    /\ ~nodes[last.a].entry /\ widgets[last.a] = Absent /\ ~Live(last.a)
    /\ \E m \in NodeIds \ {Root} :
          Live(m) /\ nodes[m].entry /\ widgets[m] # Absent

\* C26: a handle_pointer_motion whose hit test gives the stored highlight
\* (a node, or none when none is stored) delivers nothing to any control and
\* leaves the stored highlight, the pointer_down flag and the registry as
\* they are
C26_SameHitNoDelivery ==
    [][\A p \in Points :
          (handle_pointer_motion(p) /\ HitTest(p) = highlight) =>
              /\ status' = "ok"
              /\ delivered' = <<>>
              /\ highlight' = highlight
              /\ pointer_down' = pointer_down
              /\ nodes' = nodes
    ]_vars

\* the pointer moved within a highlighted button
C26_Witness ==
    /\ status = "ok"
    /\ last.op = "handle_pointer_motion"
    /\ highlight # NoNode
    /\ widgets[highlight] = "Button"
    /\ HitTest(<<last.a, last.b>>) = highlight
    /\ delivered = <<>>

----------------------------------------------------------------------------
(* Claims about the bounds and the eligibility of the hit test *)

\* the nodes whose box, placed on the screen by adding up the layout offsets
\* from the root down, holds the point p, as does the box of each node above
\* it; ox, oy is where the space of the parent starts on the screen
RECURSIVE HeldVia(_, _, _, _, _)
HeldVia(node, ox, oy, p, path) ==
    IF ~Live(node) \/ node \in path THEN {}
    ELSE LET left == ox + box[node].x
             top == oy + box[node].y
         IN IF /\ left <= p[1] /\ p[1] < left + box[node].w
               /\ top <= p[2] /\ p[2] < top + box[node].h
            THEN {node} \cup
                 UNION {HeldVia(children[node][i], left, top, p,
                                path \cup {node}) :
                           i \in 1..Len(children[node])}
            ELSE {}

\* node a with the one child b inside it: a at (0,0,100,100), b at
\* (50,50,100,100) in the space of a, so b reaches to (150,150) on the screen
Nested(a, b) ==
    /\ a # b
    /\ Live(Root) /\ Live(a) /\ Live(b)
    /\ children[Root] = <<a>> /\ children[a] = <<b>> /\ children[b] = <<>>
    /\ box[Root] = ScreenBox /\ box[a] = BoxA /\ box[b] = BoxB
    /\ can_highlight(a) /\ can_highlight(b)

\* C27: the hit test gives a node only if the point, taken into the space
\* of each node by subtracting the layout offsets from the root down, is in
\* the half-open box [0,width) x [0,height) of the node and of every node
\* above it: the left and top edge are inside, the right and bottom edge are
\* outside, and the part of a child that sticks out of its parent is not hit
C27_HitInsideHalfOpenBoxes ==
    AfterMotion =>
        /\ highlight # NoNode =>
              highlight \in HeldVia(Root, 0, 0, LastPoint, {})
        /\ \A a, b \in NodeIds \ {Root} :
              /\ Scene(a, b) =>
                    /\ LastPoint = <<0, 0>> => highlight = a
                    /\ LastPoint = <<100, 100>> => highlight = b
                    /\ LastPoint = <<150, 150>> => highlight = NoNode
              /\ Nested(a, b) =>
                    /\ LastPoint = <<0, 0>> => highlight = a
                    /\ LastPoint \in {<<100, 100>>, <<120, 120>>,
                                      <<150, 150>>} => highlight = NoNode

\* the pointer is on the part of the child that sticks out of its parent,
\* and nothing is highlighted
C27_Witness ==
    /\ AfterMotion
    /\ LastPoint = <<120, 120>>
    /\ \E a, b \in NodeIds \ {Root} : Nested(a, b)
    /\ highlight = NoNode

\* the node has a registry entry with a Visual whose background is present
HasBackground(n) ==
    nodes[n].entry /\ nodes[n].visual.some /\ nodes[n].visual.background

\* the boxes of Scene and of Nested, whatever the Visuals
SiblingBoxes(a, b) ==
    /\ a # b
    /\ Live(Root) /\ Live(a) /\ Live(b)
    /\ children[Root] = <<a, b>>
    /\ children[a] = <<>> /\ children[b] = <<>>
    /\ box[Root] = ScreenBox /\ box[a] = BoxA /\ box[b] = BoxB
NestedBoxes(a, b) ==
    /\ a # b
    /\ Live(Root) /\ Live(a) /\ Live(b)
    /\ children[Root] = <<a>> /\ children[a] = <<b>> /\ children[b] = <<>>
    /\ box[Root] = ScreenBox /\ box[a] = BoxA /\ box[b] = BoxB

\* C28: the hit test gives a node exactly when some node with a Visual that
\* has a background holds the point, and the node given is such a node; a
\* node without Visual or without background is never given, and the search
\* goes past it to the siblings added before it and to its parent
C28_OnlyBackgroundIsHit ==
    AfterMotion =>
        LET eligible == {n \in HeldVia(Root, 0, 0, LastPoint, {}) :
                            HasBackground(n)}
        IN /\ highlight # NoNode <=> eligible # {}
           /\ highlight # NoNode => highlight \in eligible
           /\ \A a, b \in NodeIds \ {Root} :
                 (/\ LastPoint = <<75, 75>>
                  /\ SiblingBoxes(a, b) \/ NestedBoxes(a, b)
                  /\ HasBackground(a) /\ ~HasBackground(b))
                 => highlight = a

\* the pointer is on a label (a Visual without background) that covers part
\* of a node with a background added before it: that node is highlighted
C28_Witness ==
    /\ AfterMotion
    /\ LastPoint = <<75, 75>>
    /\ \E a, b \in NodeIds \ {Root} :
          /\ SiblingBoxes(a, b)
          /\ HasBackground(a)
          /\ nodes[b].visual = VisualDefault
          /\ highlight = a

\* the Text ranges of the frame, in the order of the range list
TextRanges == SelectSeq(instance_ranges, LAMBDA r : r.kind = "Text")
\* the text calls of the frame, in order
TextCalls == SelectSeq(frame.calls, LAMBDA c : c.kind = "text")

\* the call at position k of the frame is a text call that no text call
\* precedes since the last accepted quad call (or since the frame began)
OpensTextRun(k) ==
    /\ frame.calls[k].kind = "text"
    /\ \A j \in 1..(k - 1) :
          frame.calls[j].kind = "text" =>
              \E q \in (j + 1)..(k - 1) :
                  frame.calls[q].kind = "quad" /\ frame.calls[q].accepted
\* how many runs of text calls have begun up to position k
TextRunsUpTo(k) == Cardinality({j \in 1..k : OpensTextRun(j)})

\* C29: in a frame the layers of the Text ranges grow strictly along the
\* range list, so no two Text ranges have one layer; there is one Text range
\* per run of text calls between accepted quad calls, and every text call of
\* the run is tagged with the layer of that range
C29_TextLayersIncrease ==
    /\ \A i, j \in 1..Len(TextRanges) :
          i < j => TextRanges[i].layer < TextRanges[j].layer
    /\ Len(TextRanges) = TextRunsUpTo(Len(frame.calls))
    /\ \A k \in 1..Len(frame.calls) :
          frame.calls[k].kind = "text" =>
              frame.calls[k].z = TextRanges[TextRunsUpTo(k)].layer
    /\ Len(brush.queue) = Len(TextCalls)
    /\ \A i \in 1..Len(TextCalls) : brush.queue[i].z = TextCalls[i].z

\* a text, an accepted quad, two texts: Text ranges of layer 0 and layer 1,
\* the two last texts on layer 1
C29_Witness ==
    /\ Len(frame.calls) = 4
    /\ Len(TextRanges) = 2
    /\ TextRanges[1].layer = 0
    /\ TextRanges[2].layer = 1
    /\ frame.calls[3].kind = "text" /\ frame.calls[3].z = 1
    /\ frame.calls[4].kind = "text" /\ frame.calls[4].z = 1

----------------------------------------------------------------------------
(* Claims about the pixel snapping of QuadRenderer::transform *)

\* on one axis, with p and s the scaled position and size and sp and ss what
\* transform makes of them: the snapped far edge is not beyond the rounded
\* far edge of the scaled quad
FarEdgeWithin(p, s, sp, ss) == sp + ss <= Round4(p + s)

\* the snapped position is a whole pixel next to p, the snapped size the
\* whole pixels that fit in s
Snapped(p, s, sp, ss) ==
    /\ sp % 4 = 0 /\ ss % 4 = 0
    /\ 0 - 2 <= sp - p /\ sp - p <= 2
    /\ ss <= s /\ s < ss + 4

\* C30 as stated: with pixel snapping, for every quad and on each axis, the
\* snapped far edge is not greater than round(position + size) of the scaled
\* quad, and the snapped size is not larger than the scaled size
C30_SnapNeverOverdraws ==
    [][\A q \in CullQuads :
          (queue(q) /\ pixel_perfect) =>
              LET r == transform(q.rect)
                  x == RectX(q.rect) * scale
                  y == RectY(q.rect) * scale
                  w == RectW(q.rect) * scale
                  h == RectH(q.rect) * scale
              IN /\ Snapped(x, w, RectX(r), RectW(r))
                 /\ Snapped(y, h, RectY(r), RectH(r))
                 /\ FarEdgeWithin(x, w, RectX(r), RectW(r))
                 /\ FarEdgeWithin(y, h, RectY(r), RectH(r))
    ]_vars

\* C30 amended: with pixel snapping the snapped size is never larger than
\* the scaled size, and for every quad whose scaled size on the axis is not
\* negative the snapped far edge is not greater than round(position + size);
\* a quad of negative size can end beyond it (queue discards such a quad)
C30_SnapNeverOverdrawsSized ==
    [][\A q \in CullQuads :
          (queue(q) /\ pixel_perfect) =>
              LET r == transform(q.rect)
                  x == RectX(q.rect) * scale
                  y == RectY(q.rect) * scale
                  w == RectW(q.rect) * scale
                  h == RectH(q.rect) * scale
              IN /\ Snapped(x, w, RectX(r), RectW(r))
                 /\ Snapped(y, h, RectY(r), RectH(r))
                 /\ w >= 0 => FarEdgeWithin(x, w, RectX(r), RectW(r))
                 /\ h >= 0 => FarEdgeWithin(y, h, RectY(r), RectH(r))
    ]_vars

\* a quad 1.5 pixels wide at the origin was queued with snapping at scale 1:
\* it is 1 pixel wide, its far edge at 1 where the unsnapped one rounds to 2
C30_Witness ==
    /\ pixel_perfect
    /\ scale = 2
    /\ scroll_offset = <<0, 0>>
    /\ instances # <<>>
    /\ instances[Len(instances)].rect = <<0, 0, 4, 40>>


(* Claims about the translation stack of GuiRenderer *)

\* the translation stack is as deep after k calls
Depth(k) == Len(RendererAt(k).translation_stack)

\* the save() calls before call k whose restore() has not come by call k:
\* the nodes on the path from the root to the node of call k
OpenSaves(k) ==
    {i \in 1..k : /\ painted[i].cmd = "save"
                  /\ \A j \in i..k : Depth(j) >= Depth(i)}

RECURSIVE SumOffsets(_, _)
\* the layout offsets of the nodes entered at the calls in S, added up
SumOffsets(S, axis) ==
    IF S = {} THEN 0
    ELSE LET i == CHOOSE i \in S : TRUE
         IN (IF axis = 1 THEN box[painted[i].node].x
             ELSE box[painted[i].node].y)
            + SumOffsets(S \ {i}, axis)

\* the save() that the restore() at call j undoes
SaveOf(j) ==
    CHOOSE i \in 1..j : /\ painted[i].cmd = "save"
                        /\ Depth(i - 1) = Depth(j)
                        /\ \A m \in i..(j - 1) : Depth(m) > Depth(j)

\* C31: during a Gui::render that returns, the translation in effect at
\* every paint call equals the sum of the layout offsets of the nodes on the
\* path from the root to the painted node; every restore() finds a save() of
\* the same node and puts back the translation from before that save(); and
\* after render the translation stack is empty
C31_TranslationIsPathSum ==
    Rendered =>
        /\ \A k \in 1..Len(painted) :
              /\ painted[k].cmd \in PaintCmds =>
                    RendererAt(k).translation
                        = <<SumOffsets(OpenSaves(k), 1),
                            SumOffsets(OpenSaves(k), 2)>>
              /\ painted[k].cmd = "restore" =>
                    /\ Depth(k - 1) > 0
                    /\ painted[SaveOf(k)].node = painted[k].node
                    /\ RendererAt(k).translation
                           = RendererAt(SaveOf(k) - 1).translation
        /\ RendererAt(Len(painted)).translation_stack = <<>>
        /\ RendererAt(Len(painted)).translation = <<0, 0>>

\* a render that painted a node with a background below a parent whose
\* layout offset is not zero, and a node after that subtree was left
C31_Witness ==
    /\ Rendered
    /\ \E k \in 1..Len(painted) :
          /\ painted[k].cmd = "background"
          /\ Cardinality(OpenSaves(k)) = 3
          /\ \E i \in OpenSaves(k) :
                /\ painted[i].node # painted[k].node
                /\ box[painted[i].node].x > 0


(* Claims about GuiRenderer::draw_border *)

\* the border that was painted and the strokes the renderer received
BorderPainted == painted # <<>> /\ painted[1].cmd = "border"
Strokes == Tail(painted)

EdgeNames == <<"top", "right", "bottom", "left">>
\* the width a style gives an edge: a length, a percentage gives none
EdgeWidth(style, edge) ==
    IF style[edge].kind = "Length" THEN style[edge].v ELSE 0

\* the edge a stroke lies on, told from where its centre is (half pixels):
\* the middle of the top, right, bottom or left side of the box inset by 0.5
EdgeAt(stroke, size) ==
    LET cx == stroke.x + stroke.w \div 2
        cy == stroke.y + stroke.h \div 2
    IN CASE cx = size[1] /\ cy = 1 -> "top"
         [] cx = 2 * size[1] - 1 /\ cy = size[2] -> "right"
         [] cx = size[1] /\ cy = 2 * size[2] - 1 -> "bottom"
         [] cx = 1 /\ cy = size[2] -> "left"
         [] OTHER -> "none"

RECURSIVE EdgesOf(_, _)
EdgesOf(strokes, size) ==
    IF strokes = <<>> THEN <<>>
    ELSE <<EdgeAt(Head(strokes), size)>> \o EdgesOf(Tail(strokes), size)

\* C32: painting a border emits one stroke for each edge whose width is
\* greater than zero and none for an edge of width zero or of a percentage
\* width, in the order top, right, bottom, left; with no edge wider than
\* zero no stroke is emitted at all
C32_OneStrokePerWideEdge ==
    BorderPainted =>
        LET size == painted[1].size
            style == painted[1].style
            wide == SelectSeq(EdgeNames, LAMBDA e : EdgeWidth(style, e) > 0)
        IN /\ EdgesOf(Strokes, size) = wide
           /\ (\A i \in 1..4 : EdgeWidth(style, EdgeNames[i]) = 0)
                  => Strokes = <<>>

\* a border with a wide top and left edge, a zero right edge and a
\* percentage bottom edge was painted with two strokes
C32_Witness ==
    /\ BorderPainted
    /\ painted[1].style.top = Length(3)
    /\ painted[1].style.right = Length(0)
    /\ painted[1].style.bottom = Percent(1)
    /\ painted[1].style.left = Length(1)
    /\ Len(Strokes) = 2


(* Claims about lookups that find nothing *)

\* the step is one call of op that was made on a running program
StepOf(op) == status = "ok" /\ last'.n = last.n + 1 /\ last'.op = op

C34_TraversalsAreBounded ==
    last.op \in {"render", "handle_pointer_motion"} =>
        /\ status # "overflow"
        /\ last.op = "render" /\ status = "ok"
              => Len(Visits) <= Cardinality(layoutNodes)


(* Claims about the states stored in the controls *)

\* the nodes that have a control
Controls == {n \in NodeIds : widgets[n] # Absent}

\* C35: between top-level Gui calls, every control of a node other than the
\* stored highlight was last delivered None or was never delivered anything,
\* so at most one control is in state Over or Press and it is the control of
\* the highlighted node; after any mix of pointer events with remove_child
\* and destroy_node
C35_OnlyHighlightIsOverOrPress ==
    status = "ok" =>
        \A n \in Controls : n # highlight => model[n].state = "None"


\* C36: in every state reached by building a tree and sending pointer
\* events, without removing or destroying a node, a highlighted node's
\* control was last delivered Press when pointer_down is set and Over when
\* it is not
C36_HighlightStateFollowsButton ==
    status = "ok" /\ highlight # NoNode /\ highlight \in Controls =>
        model[highlight].state = IF pointer_down THEN "Press" ELSE "Over"

\* the button went down and up again over a highlighted control, and then
\* down: the control holds Press
C36_Witness ==
    /\ status = "ok"
    /\ highlight \in Controls
    /\ pointer_down
    /\ last.op = "handle_pointer_button"
    /\ model[highlight].state = "Press"
    /\ delivered = <<[node |-> highlight, state |-> "Press"]>>


(* Claims about the shape of the range list *)

\* the Instances ranges of the list, in list order
InstancesRanges ==
    SelectSeq(instance_ranges, LAMBDA r : r.kind = "Instances")

\* n times the key
RECURSIVE Copies(_, _)
Copies(key, n) == IF n <= 0 THEN <<>> ELSE <<key>> \o Copies(key, n - 1)

\* the range list read in order: the texture of every quad an Instances
\* range covers, "Text" for a Text range
RECURSIVE ReadRanges(_)
ReadRanges(ranges) ==
    IF ranges = <<>> THEN <<>>
    ELSE (IF Head(ranges).kind = "Text" THEN <<"Text">>
          ELSE Copies(Head(ranges).texture,
                      Head(ranges).end - Head(ranges).start))
         \o ReadRanges(Tail(ranges))

\* the accepted calls of the frame in order: the texture of every accepted
\* quad, "Text" once for every run of texts
RECURSIVE ReadCalls(_, _)
ReadCalls(calls, afterText) ==
    IF calls = <<>> THEN <<>>
    ELSE IF Head(calls).kind = "text"
    THEN (IF afterText THEN <<>> ELSE <<"Text">>)
         \o ReadCalls(Tail(calls), TRUE)
    ELSE <<Head(calls).texture>> \o ReadCalls(Tail(calls), FALSE)

\* C37: after any sequence of queue and queue_text calls in a frame the
\* Instances ranges, in list order, are non-empty, start at 0, each start
\* where the one before ended and end at the number of accumulated quads;
\* the range list read in order gives the accepted calls in their order; and
\* no two neighbouring ranges are both Text or both Instances of one texture
C37_RangesPartitionInstances ==
    QuadAlive =>
        LET R == InstancesRanges
        IN /\ \A k \in 1..Len(R) :
                 /\ R[k].start < R[k].end
                 /\ R[k].start = IF k = 1 THEN 0 ELSE R[k - 1].end
           /\ Len(instances) = IF R = <<>> THEN 0 ELSE R[Len(R)].end
           /\ ReadRanges(instance_ranges) = ReadCalls(Emitting, FALSE)
           /\ \A k \in 2..Len(instance_ranges) :
                 BatchKey(instance_ranges[k])
                     # BatchKey(instance_ranges[k - 1])

\* two quads of texture A in one range, a text, then A again and B: four
\* ranges over four accumulated quads
C37_Witness ==
    /\ QuadAlive
    /\ Len(instances) = 4
    /\ Len(instance_ranges) = 4
    /\ instance_ranges[1] = Instances("A", 0, 2)
    /\ instance_ranges[2].kind = "Text"
    /\ instance_ranges[3] = Instances("A", 2, 3)
    /\ instance_ranges[4] = Instances("B", 3, 4)


(* Claims about the glyph instance table at a flush *)

\* the step is a render call
RenderStep == QuadAlive /\ frame'.frames = frame.frames + 1

InDelivery ==
    \E i \in 1..Len(guards) :
        guards[i].loc = GuiSite /\ guards[i].kind = "write"
InPaint ==
    \E i \in 1..Len(guards) :
        guards[i].loc = GuiSite /\ guards[i].kind = "read"
\* the step is one call of op on the cell
CellStep(op) == ocall.status = "ok" /\ ocall'.n = ocall.n + 1 /\ ocall'.op = op

\* C39: while a pointer state is delivered to a control its cell is held
\* exclusively, while a widget is painted its cell is held shared; a nested
\* delivery or exclusive acquisition of the same cell, made before the
\* delivery or paint returned, panics at once and changes nothing; and when
\* the delivery or paint returns its guard is released, so that a later
\* delivery or paint on the free cell succeeds
C39_CellHeldDuringCallbacks ==
    [][/\ InDelivery' => inner'.writer /\ inner'.readers = 0
       /\ InPaint' => ~inner'.writer /\ inner'.readers >= 1
       /\ (InDelivery \/ InPaint)
          /\ (CellStep("deliver") \/ CellStep("get_mut"))
          => /\ ocall'.outcome = "panic"
             /\ ocall'.status = "panic"
             /\ guards' = guards
             /\ inner' = inner
       /\ InDelivery /\ (CellStep("paint") \/ CellStep("get"))
          => ocall'.outcome = "panic" /\ guards' = guards
       /\ CellStep("return")
          => /\ guards' = SubSeq(guards, 1, Len(guards) - 1)
             /\ guards' = <<>> => ~inner'.writer /\ inner'.readers = 0
       /\ guards = <<>> /\ CellStep("deliver")
          => ocall'.outcome = "guard" /\ InDelivery'
       /\ guards = <<>> /\ CellStep("paint")
          => ocall'.outcome = "guard" /\ InPaint'
      ]_vars

\* a delivery returned, the next delivery took the cell, and a delivery to
\* the same control made from inside the handler panicked
C39_Witness ==
    /\ ocall.op = "deliver"
    /\ ocall.status = "panic"
    /\ ocall.n >= 4
    /\ Len(guards) = 1
    /\ guards[1].kind = "write"
    /\ guards[1].loc = GuiSite
    /\ ocall.reported = GuiSite


(* Claims about the Button and Checkbox controls *)

\* C40: for a Button or a Checkbox, on every delivery of a pointer state:
\* exactly one pressed / changed event is emitted, and the toggle or the
\* checkbox value flipped, when Press is delivered to an enabled control
\* whose stored state is Over, and none is emitted and nothing flipped
\* otherwise; in particular not by a disabled control and not on Press after
\* None; and the stored state becomes the delivered state
C40_EventOnPressAfterOver ==
    [][delivered' # <<>> =>
          LET d == delivered'[1]
              m == model[d.node]
              fires == m.enabled /\ m.state = "Over" /\ d.state = "Press"
          IN /\ model'[d.node].state = d.state
             /\ Len(emitted') = IF fires THEN 1 ELSE 0
             /\ fires => emitted'[1].node = d.node
             /\ fires /\ m.toggle.some
                   => /\ model'[d.node].toggle.on = ~m.toggle.on
                      /\ emitted'[1].value.on = ~m.toggle.on
             /\ ~(fires /\ m.toggle.some)
                   => model'[d.node].toggle = m.toggle
             /\ ~m.enabled => emitted' = <<>>
             /\ m.state = "None" /\ d.state = "Press" => emitted' = <<>>
             /\ model'[d.node].enabled = m.enabled
             /\ \A k \in NodeIds \ {d.node} : model'[k] = model[k]
      ]_vars

\* an unchecked, enabled checkbox got Press after Over: it is checked now
\* and emitted changed with the flipped value
C40_Witness ==
    /\ delivered # <<>>
    /\ delivered[1].state = "Press"
    /\ model[delivered[1].node].kind = "Checkbox"
    /\ model[delivered[1].node].state = "Press"
    /\ model[delivered[1].node].toggle.on
    /\ Len(emitted) = 1
    /\ emitted[1].value = Toggle(TRUE)

====
